---- MODULE Spec2Model ----
(***************************************************************************)
(* Model of the update-expression factory of                               *)
(* "src/TODO clients yet to create/dynamodb_utils (mundi).py":             *)
(* UpdateExpressionFactory (__init__, add_attr, make) and dynamize; of     *)
(* dynamize and dedynamize of "dynamodb_utils (odd-manager).py" (SpecDyn); *)
(* of AwsParameterStoreClient and its cache (SpecPs); of DynamodbTable     *)
(* (SpecDb); of SnsTopic.publish (SpecSns); and of AwsLambdaClient         *)
(* (SpecLambda).                                                           *)
(*                                                                         *)
(* Python strings on which the code computes (attribute names, the update  *)
(* expression, placeholders) are sequences of one-character strings.       *)
(* Strings the code only carries around (pk, sk, attribute values, table   *)
(* names, error messages) are opaque.  A Python dict that the code         *)
(* iterates is a sequence of [k, v] entries in insertion order; a dict     *)
(* that is only returned is a function.                                    *)
(***************************************************************************)
EXTENDS Integers, Sequences, FiniteSets, TLC

VARIABLES pk, sk, to_update_if_not_exists, to_update_if_not_exists_ix,
          to_update, to_update_ix, calls, last,
          identifier, dynamized, dedynamized,
          cache, parameter_store, now, sdk_get_calls, ps_calls, ps_last,
          db_items, db_key_attr_names, db_calls, db_last,
          sns_sdk_calls, sns_calls, sns_last,
          lambda_calls, lambda_last

\* The builder's fields and the record of the calls made on it.
factoryVars == <<pk, sk, to_update_if_not_exists, to_update_if_not_exists_ix,
                 to_update, to_update_ix, calls, last>>

\* The identifier given to dynamize, what dynamize made of it and what
\* dedynamize made of that.
dynVars == <<identifier, dynamized, dedynamized>>

\* The process-wide cache of aws_parameter_store_client, the parameters
\* held by AWS Parameter Store, the clock, the number of SDK get_parameter
\* calls made, the number of client calls made and the record of the last.
psVars == <<cache, parameter_store, now, sdk_get_calls, ps_calls, ps_last>>

\* The items held by the DynamoDB table that exists, the key attribute
\* names each DynamodbTable instance has cached, the number of calls made on
\* the instances and the record of the last.
dbVars == <<db_items, db_key_attr_names, db_calls, db_last>>

\* The calls of the SDK's Topic.publish made by the SnsTopic instances, the
\* number of publish calls made on the instances and the record of the last.
snsVars == <<sns_sdk_calls, sns_calls, sns_last>>

\* The number of calls made on the AwsLambdaClient and the record of the
\* last.
lambdaVars == <<lambda_calls, lambda_last>>

\* What each specification leaves alone.
outsideFactory == <<dynVars, psVars, dbVars, snsVars, lambdaVars>>

outsideDyn == <<factoryVars, psVars, dbVars, snsVars, lambdaVars>>

outsidePs == <<factoryVars, dynVars, dbVars, snsVars, lambdaVars>>

outsideDb == <<factoryVars, dynVars, psVars, snsVars, lambdaVars>>

outsideSns == <<factoryVars, dynVars, psVars, dbVars, lambdaVars>>

outsideLambda == <<factoryVars, dynVars, psVars, dbVars, snsVars>>

vars == <<factoryVars, dynVars, psVars, dbVars, snsVars, lambdaVars>>

(***************************************************************************)
(* Bounds.                                                                 *)
(***************************************************************************)
\* Number of add_attr calls made on one builder.
MaxCalls == 3

(***************************************************************************)
(* Python values.                                                          *)
(***************************************************************************)
None == [t |-> "NoneType"]

PyStr(s) == [t |-> "str", s |-> s]

\* bool(v) for None and for str.
Truthy(v) == v.t = "str" /\ v.s # ""

(***************************************************************************)
(* Characters and the str methods that dynamize uses.                      *)
(***************************************************************************)
LowerChars == <<"a", "b", "c", "d", "e", "f", "g", "h", "i", "j", "k", "l", "m",
                "n", "o", "p", "q", "r", "s", "t", "u", "v", "w", "x", "y", "z">>

UpperChars == <<"A", "B", "C", "D", "E", "F", "G", "H", "I", "J", "K", "L", "M",
                "N", "O", "P", "Q", "R", "S", "T", "U", "V", "W", "X", "Y", "Z">>

IsLower(c) == \E i \in 1..Len(LowerChars) : LowerChars[i] = c

IsUpper(c) == \E i \in 1..Len(UpperChars) : UpperChars[i] = c

ToUpper(c) ==
    IF IsLower(c)
    THEN UpperChars[CHOOSE i \in 1..Len(LowerChars) : LowerChars[i] = c]
    ELSE c

ToLower(c) ==
    IF IsUpper(c)
    THEN LowerChars[CHOOSE i \in 1..Len(UpperChars) : UpperChars[i] = c]
    ELSE c

\* str.upper()
StrUpper(s) == [i \in 1..Len(s) |-> ToUpper(s[i])]

\* str.lower()
StrLower(s) == [i \in 1..Len(s) |-> ToLower(s[i])]

\* Whether the character before position i of s is cased (a letter).
PrevCased(s, i) == i > 1 /\ (IsLower(s[i - 1]) \/ IsUpper(s[i - 1]))

\* str.title(): a letter that follows an uncased character (or starts the
\* string) is upper-cased, a letter that follows a cased one is lower-cased.
StrTitle(s) ==
    [i \in 1..Len(s) |->
        IF PrevCased(s, i) THEN ToLower(s[i]) ELSE ToUpper(s[i])]

\* The positions of sep in s.
SepPositions(s, sep) == {i \in 1..Len(s) : s[i] = sep}

\* The position of the n-th sep of s; 0 for n = 0 and Len(s) + 1 past the last.
NthSep(s, sep, n) ==
    IF n = 0 THEN 0
    ELSE IF n > Cardinality(SepPositions(s, sep)) THEN Len(s) + 1
    ELSE CHOOSE p \in SepPositions(s, sep) :
            Cardinality({q \in SepPositions(s, sep) : q < p}) = n - 1

\* str.split(sep) for a one-character sep: one token more than there are
\* separators, empty tokens included.
StrSplit(s, sep) ==
    [n \in 1..(Cardinality(SepPositions(s, sep)) + 1) |->
        SubSeq(s, NthSep(s, sep, n - 1) + 1, NthSep(s, sep, n) - 1)]

RECURSIVE StrJoin(_)
\* "".join(tokens)
StrJoin(tokens) ==
    IF tokens = <<>> THEN <<>> ELSE Head(tokens) \o StrJoin(Tail(tokens))

SpecialTokens == {<<"g", "s", "i">>, <<"p", "k">>, <<"s", "k">>}

\* Mutant of DynamizeToken: every token is title-cased.
DynamizeTokenTitled(tk) == StrTitle(tk)

\* One token of dynamize: upper() for gsi/pk/sk, title() otherwise.
DynamizeToken(tk) ==
    IF StrLower(tk) \in SpecialTokens THEN StrUpper(tk) ELSE StrTitle(tk)

dynamize(text) ==
    LET tks == StrSplit(text, "_")
    IN  StrJoin([i \in 1..Len(tks) |-> DynamizeToken(tks[i])])

(***************************************************************************)
(* Python dicts in insertion order.                                        *)
(***************************************************************************)
DictKeys(d) == {d[i].k : i \in 1..Len(d)}

DictHas(d, k) == \E i \in 1..Len(d) : d[i].k = k

\* d[k], for k in d.
DictGet(d, k) == d[CHOOSE i \in 1..Len(d) : d[i].k = k].v

DictValues(d) == {d[i].v : i \in 1..Len(d)}

\* d[k] = v: a present key keeps its position, a new key goes last.
DictSet(d, k, v) ==
    IF DictHas(d, k)
    THEN [i \in 1..Len(d) |-> IF d[i].k = k THEN [k |-> k, v |-> v] ELSE d[i]]
    ELSE Append(d, [k |-> k, v |-> v])

RECURSIVE DictUpdate(_, _)
\* d.update(other)
DictUpdate(d, other) ==
    IF other = <<>>
    THEN d
    ELSE DictUpdate(DictSet(d, Head(other).k, Head(other).v), Tail(other))

(***************************************************************************)
(* Inputs.                                                                 *)
(***************************************************************************)
\* "at"
NameAt == <<"a", "t">>

\* "gsi_at"
NameGsiAt == <<"g", "s", "i", "_", "a", "t">>

\* The attribute names tried.
Names == {NameAt, NameGsiAt}

\* The attribute values tried.
AttrValues == {PyStr("x"), PyStr("y")}

PyDict(d) == [t |-> "dict", d |-> d]

Entry(k, v) == [k |-> k, v |-> v]

\* The indexes arguments tried: None, {}, one binding (with a value, with
\* None), two bindings (with values, one with None).
IndexesInputs ==
    {None,
     PyDict(<<>>),
     PyDict(<<Entry(NameGsiAt, PyStr("x"))>>),
     PyDict(<<Entry(NameGsiAt, PyStr("y"))>>),
     PyDict(<<Entry(NameGsiAt, None)>>),
     PyDict(<<Entry(NameGsiAt, PyStr("x")), Entry(NameAt, PyStr("y"))>>),
     PyDict(<<Entry(NameAt, PyStr("x")), Entry(NameGsiAt, None)>>)}

ReturnValuesEnum ==
    {[name |-> n, value |-> n] :
        n \in {"NONE", "ALL_OLD", "UPDATED_OLD", "ALL_NEW", "UPDATED_NEW"}}

ReturnValuesNONE == [name |-> "NONE", value |-> "NONE"]

\* The return_values arguments tried.
ReturnValuesInputs == {r \in ReturnValuesEnum : r.name \in {"NONE", "ALL_NEW"}}

\* The table_name arguments tried: None, the empty string, a name.
TableNames == {None, PyStr(""), PyStr("MyTable")}

PKs == {"pk1"}

SKs == {"sk1"}

(***************************************************************************)
(* Exceptions.                                                             *)
(***************************************************************************)
NoException == [type |-> "NoException"]

Raise(type, msg) == [type |-> type, msg |-> msg]

(***************************************************************************)
(* UpdateExpressionFactory.                                                *)
(***************************************************************************)
\* The builder object.
Self ==
    [pk |-> pk, sk |-> sk,
     to_update_if_not_exists |-> to_update_if_not_exists,
     to_update_if_not_exists_ix |-> to_update_if_not_exists_ix,
     to_update |-> to_update,
     to_update_ix |-> to_update_ix]

\* `if indexes:`
IndexesGiven(indexes) == indexes.t = "dict" /\ indexes.d # <<>>

\* Mutant of NoneInValues: only the first value is looked at.
NoneInFirstValue(indexes) == indexes.d[1].v = None

\* `None in indexes.values()`
NoneInValues(indexes) == None \in DictValues(indexes.d)

\* Mutant of AddAttrTo: the indexes are bound before the test for None.
AddAttrToBindBeforeTest(self, plain, ix, attr_name, attr_value, indexes) ==
    LET s1 == [self EXCEPT ![plain] = DictSet(self[plain], attr_name, attr_value)]
    IN  IF IndexesGiven(indexes)
        THEN [self |-> [s1 EXCEPT ![ix] = DictUpdate(s1[ix], indexes.d)],
              exc |-> IF NoneInValues(indexes)
                      THEN Raise("IndexValueNoneError", "Index values cannot be None")
                      ELSE NoException]
        ELSE [self |-> s1, exc |-> NoException]

\* Mutant of AddAttrTo: a call that binds indexes stores the bindings only,
\* not the attribute it names.
AddAttrToBindingsOnly(self, plain, ix, attr_name, attr_value, indexes) ==
    IF IndexesGiven(indexes)
    THEN IF NoneInValues(indexes)
         THEN [self |-> self,
               exc |-> Raise("IndexValueNoneError", "Index values cannot be None")]
         ELSE [self |-> [self EXCEPT ![ix] = DictUpdate(self[ix], indexes.d)],
               exc |-> NoException]
    ELSE [self |-> [self EXCEPT ![plain] = DictSet(self[plain], attr_name, attr_value)],
          exc |-> NoException]

\* _add_attr_to_update_if_not_exists and _add_attr_to_update: the builder
\* after the call and what the call raised.  plain and ix name the two
\* buckets the method writes.
AddAttrTo(self, plain, ix, attr_name, attr_value, indexes) ==
    LET s1 == [self EXCEPT ![plain] = DictSet(self[plain], attr_name, attr_value)]
    IN  IF IndexesGiven(indexes)
        THEN IF NoneInValues(indexes)
             THEN [self |-> s1,
                   exc |-> Raise("IndexValueNoneError", "Index values cannot be None")]
             ELSE [self |-> [s1 EXCEPT ![ix] = DictUpdate(s1[ix], indexes.d)],
                   exc |-> NoException]
        ELSE [self |-> s1, exc |-> NoException]

\* Mutant of add_attr: both branches bind the indexes in to_update_ix.
add_attr_one_indexed_bucket(self, attr_name, attr_value, indexes, do_skip_if_existing) ==
    IF do_skip_if_existing
    THEN AddAttrTo(self, "to_update_if_not_exists", "to_update_ix",
                   attr_name, attr_value, indexes)
    ELSE AddAttrTo(self, "to_update", "to_update_ix",
                   attr_name, attr_value, indexes)

add_attr(self, attr_name, attr_value, indexes, do_skip_if_existing) ==
    IF do_skip_if_existing
    THEN AddAttrTo(self, "to_update_if_not_exists", "to_update_if_not_exists_ix",
                   attr_name, attr_value, indexes)
    ELSE AddAttrTo(self, "to_update", "to_update_ix",
                   attr_name, attr_value, indexes)

(***************************************************************************)
(* The string pieces of make's f-strings.                                  *)
(***************************************************************************)
\* ", #"
LitCommaHash == <<",", " ", "#">>

\* " = if_not_exists(#"
LitIfNotExists ==
    <<" ", "=", " ", "i", "f", "_", "n", "o", "t", "_", "e", "x", "i", "s", "t", "s", "(", "#">>

\* ", :"
LitCommaColon == <<",", " ", ":">>

\* ")"
LitClose == <<")">>

\* " = :"
LitEqColon == <<" ", "=", " ", ":">>

\* "SET"
LitSET == <<"S", "E", "T">>

\* f"#{attr_name}"
NamePlaceholder(attr_name) == <<"#">> \o attr_name

\* f":{attr_name}"
ValuePlaceholder(attr_name) == <<":">> \o attr_name

\* f", #{attr_name} = if_not_exists(#{attr_name}, :{attr_name})"
IfNotExistsFragment(attr_name) ==
    LitCommaHash \o attr_name \o LitIfNotExists \o attr_name
        \o LitCommaColon \o attr_name \o LitClose

\* f", #{attr_name} = :{attr_name}"
SetFragment(attr_name) == LitCommaHash \o attr_name \o LitEqColon \o attr_name

\* d[k] = v on a dict that is only returned.
FnSet(f, k, v) == [x \in DOMAIN f \cup {k} |-> IF x = k THEN v ELSE f[x]]

\* s[1:]
StrFrom1(s) == SubSeq(s, 2, Len(s))

(***************************************************************************)
(* UpdateExpressionFactory.make.                                           *)
(***************************************************************************)
RECURSIVE IfNotExistsLoop(_, _, _, _)
\* The loops over to_update_if_not_exists and to_update_if_not_exists_ix,
\* from entry i on: d is the create-only bucket, other the always-write
\* bucket of the same kind, acc the locals [exc, update_exp, exp_attr_values].
IfNotExistsLoop(d, other, i, acc) ==
    IF i > Len(d)
    THEN acc
    ELSE LET attr_name == d[i].k
             attr_value == d[i].v
         IN  IF DictHas(other, attr_name)
             THEN IF attr_value # DictGet(other, attr_name)
                  THEN [acc EXCEPT !.exc =
                           Raise("AttributeValuesConflict",
                                 <<"Different values provided for", attr_name,
                                   attr_value, DictGet(other, attr_name)>>)]
                  ELSE IfNotExistsLoop(d, other, i + 1, acc)
             ELSE IfNotExistsLoop(d, other, i + 1,
                      [acc EXCEPT
                          !.update_exp = @ \o IfNotExistsFragment(attr_name),
                          !.exp_attr_values =
                              FnSet(@, ValuePlaceholder(attr_name), attr_value)])

RECURSIVE SetLoop(_, _, _)
\* The loops over to_update and to_update_ix, from entry i on.
SetLoop(d, i, acc) ==
    IF i > Len(d)
    THEN acc
    ELSE SetLoop(d, i + 1,
             [acc EXCEPT
                 !.update_exp = @ \o SetFragment(d[i].k),
                 !.exp_attr_values = FnSet(@, ValuePlaceholder(d[i].k), d[i].v)])

\* Mutant of ExpAttrNames: the names of the indexed buckets are left out.
ExpAttrNamesPlainOnly(self) ==
    LET names == DictKeys(self.to_update_if_not_exists) \cup DictKeys(self.to_update)
    IN  [ph \in {NamePlaceholder(n) : n \in names} |->
            dynamize(CHOOSE n \in names : NamePlaceholder(n) = ph)]

\* exp_attr_names
ExpAttrNames(self) ==
    LET names == DictKeys(self.to_update_if_not_exists)
                 \cup DictKeys(self.to_update_if_not_exists_ix)
                 \cup DictKeys(self.to_update)
                 \cup DictKeys(self.to_update_ix)
    IN  [ph \in {NamePlaceholder(n) : n \in names} |->
            dynamize(CHOOSE n \in names : NamePlaceholder(n) = ph)]

\* The dict built before the is_transaction test.
BaseExpression(self, update_exp, exp_attr_values) ==
    [Key |-> [PK |-> self.pk, SK |-> self.sk],
     UpdateExpression |-> update_exp,
     ExpressionAttributeNames |-> ExpAttrNames(self),
     ExpressionAttributeValues |-> exp_attr_values]

\* Mutant of WrapExpression: ReturnValues is always "NONE".
WrapExpressionReturnValuesNone(expression, is_transaction, table_name, return_values) ==
    IF is_transaction
    THEN [Update |->
            ("ReturnValuesOnConditionCheckFailure" :> ReturnValuesNONE.value)
            @@ ("TableName" :> table_name) @@ expression]
    ELSE ("ReturnValues" :> ReturnValuesNONE.value) @@ expression

\* Mutant of WrapExpression: TableName is put beside Update, not in it.
WrapExpressionTableNameOutside(expression, is_transaction, table_name, return_values) ==
    IF is_transaction
    THEN [Update |->
            ("ReturnValuesOnConditionCheckFailure" :> ReturnValuesNONE.value)
            @@ expression,
          TableName |-> table_name]
    ELSE ("ReturnValues" :> return_values.value) @@ expression

\* The `if is_transaction: ... else: ...` that ends make.
WrapExpression(expression, is_transaction, table_name, return_values) ==
    IF is_transaction
    THEN [Update |->
            ("ReturnValuesOnConditionCheckFailure" :> ReturnValuesNONE.value)
            @@ ("TableName" :> table_name) @@ expression]
    ELSE ("ReturnValues" :> return_values.value) @@ expression

\* Mutant of MakeLoops: the indexed create-only bucket is compared with
\* to_update, not with to_update_ix.
MakeLoopsIndexedAgainstPlain(self) ==
    LET a0 == [exc |-> NoException, update_exp |-> <<>>, exp_attr_values |-> <<>>]
        a1 == IfNotExistsLoop(self.to_update_if_not_exists, self.to_update, 1, a0)
        a2 == SetLoop(self.to_update, 1, a1)
        a3 == IfNotExistsLoop(self.to_update_if_not_exists_ix, self.to_update, 1, a2)
        a4 == SetLoop(self.to_update_ix, 1, a3)
    IN  IF a1.exc # NoException THEN a1
        ELSE IF a3.exc # NoException THEN a3
        ELSE a4

\* Mutant of MakeLoops: each always-write loop runs before the create-only
\* loop of its kind.
MakeLoopsAlwaysWriteFirst(self) ==
    LET a0 == [exc |-> NoException, update_exp |-> <<>>, exp_attr_values |-> <<>>]
        a1 == SetLoop(self.to_update, 1, a0)
        a2 == IfNotExistsLoop(self.to_update_if_not_exists, self.to_update, 1, a1)
        a3 == SetLoop(self.to_update_ix, 1, a2)
        a4 == IfNotExistsLoop(self.to_update_if_not_exists_ix, self.to_update_ix, 1, a3)
    IN  IF a2.exc # NoException THEN a2 ELSE a4

\* The four loops of make: the locals after them.
MakeLoops(self) ==
    LET a0 == [exc |-> NoException, update_exp |-> <<>>, exp_attr_values |-> <<>>]
        a1 == IfNotExistsLoop(self.to_update_if_not_exists, self.to_update, 1, a0)
        a2 == SetLoop(self.to_update, 1, a1)
        a3 == IfNotExistsLoop(self.to_update_if_not_exists_ix, self.to_update_ix, 1, a2)
        a4 == SetLoop(self.to_update_ix, 1, a3)
    IN  IF a1.exc # NoException THEN a1
        ELSE IF a3.exc # NoException THEN a3
        ELSE a4

\* Mutant of NoAttrs: only to_update_if_not_exists is tested.
NoAttrsCreateOnly(self) == self.to_update_if_not_exists = <<>>

\* `if not self.to_update_if_not_exists and not self.to_update:`
NoAttrs(self) == self.to_update_if_not_exists = <<>> /\ self.to_update = <<>>

\* Mutant of ModeCheck: table_name is compared with None, so that the
\* empty string counts as a table name.
ModeCheckTableNameIsNone(is_transaction, table_name, return_values) ==
    IF is_transaction /\ table_name = None
    THEN Raise("ValueError",
               "table_name cannot be None when is_transaction is True")
    ELSE IF ~is_transaction /\ table_name # None
    THEN Raise("ValueError",
               "table_name must be None when is_transaction is True")
    ELSE IF is_transaction /\ return_values # ReturnValuesNONE
    THEN Raise("ValueError",
               "return_values must be ReturnValuesEnum.None when is_transaction is True")
    ELSE NoException

\* The checks of is_transaction, table_name and return_values: what they
\* raise (the messages are the source's without their backquotes).
ModeCheck(is_transaction, table_name, return_values) ==
    IF is_transaction /\ ~Truthy(table_name)
    THEN Raise("ValueError",
               "table_name cannot be None when is_transaction is True")
    ELSE IF ~is_transaction /\ Truthy(table_name)
    THEN Raise("ValueError",
               "table_name must be None when is_transaction is True")
    ELSE IF is_transaction /\ return_values # ReturnValuesNONE
    THEN Raise("ValueError",
               "return_values must be ReturnValuesEnum.None when is_transaction is True")
    ELSE NoException

\* Mutant of make: is_transaction, table_name and return_values are
\* checked before the buckets are.
make_checks_mode_first(self, is_transaction, table_name, return_values) ==
    IF ModeCheck(is_transaction, table_name, return_values) # NoException
    THEN [exc |-> ModeCheck(is_transaction, table_name, return_values),
          ret |-> None]
    ELSE IF NoAttrs(self)
    THEN [exc |-> Raise("NoAttrsAdded", "add_attr() must be invoked at least once"),
          ret |-> None]
    ELSE LET a == MakeLoops(self)
         IN  IF a.exc # NoException
             THEN [exc |-> a.exc, ret |-> None]
             ELSE [exc |-> NoException,
                   ret |-> WrapExpression(
                       BaseExpression(self, LitSET \o StrFrom1(a.update_exp),
                                      a.exp_attr_values),
                       is_transaction, table_name, return_values)]

\* make: what it raises and what it returns.
make(self, is_transaction, table_name, return_values) ==
    IF NoAttrs(self)
    THEN [exc |-> Raise("NoAttrsAdded", "add_attr() must be invoked at least once"),
          ret |-> None]
    ELSE IF ModeCheck(is_transaction, table_name, return_values) # NoException
    THEN [exc |-> ModeCheck(is_transaction, table_name, return_values),
          ret |-> None]
    ELSE LET a == MakeLoops(self)
         IN  IF a.exc # NoException
             THEN [exc |-> a.exc, ret |-> None]
             ELSE [exc |-> NoException,
                   ret |-> WrapExpression(
                       BaseExpression(self, LitSET \o StrFrom1(a.update_exp),
                                      a.exp_attr_values),
                       is_transaction, table_name, return_values)]

(***************************************************************************)
(* The components that a specification does not exercise stay idle.        *)
(***************************************************************************)
\* The outcome slot of a function that has not been called.
NotCalled == [done |-> FALSE]

\* No builder is constructed.
FactoryIdle ==
    /\ pk = None
    /\ sk = None
    /\ to_update_if_not_exists = <<>>
    /\ to_update_if_not_exists_ix = <<>>
    /\ to_update = <<>>
    /\ to_update_ix = <<>>
    /\ calls = 0
    /\ last = None

\* dynamize and dedynamize are not called.
DynIdle ==
    /\ identifier = <<>>
    /\ dynamized = NotCalled
    /\ dedynamized = NotCalled

\* The two paths of the tests: /test/aws/parameter/store/client and
\* /test/aws/XXX.
Paths == {"/test/aws/parameter/store/client", "/test/aws/XXX"}

\* Parameter Store holds no parameter at a path.
NoParameter == [present |-> FALSE]

\* No client of Parameter Store is used: the cache is empty.
PsIdle ==
    /\ cache = <<>>
    /\ parameter_store = [p \in Paths |-> NoParameter]
    /\ now = 0
    /\ sdk_get_calls = 0
    /\ ps_calls = 0
    /\ ps_last = None

\* The two table names of the tests: the table that exists and the one that
\* does not.
DbTableNames == {"botte-be-task-prod", "XXX"}

\* No DynamodbTable is used: the table is empty.
DbIdle ==
    /\ db_items = <<>>
    /\ db_key_attr_names = [name \in DbTableNames |-> None]
    /\ db_calls = 0
    /\ db_last = None

\* No SnsTopic is used.
SnsIdle ==
    /\ sns_sdk_calls = <<>>
    /\ sns_calls = 0
    /\ sns_last = None

\* No AwsLambdaClient is used.
LambdaIdle ==
    /\ lambda_calls = 0
    /\ lambda_last = None

(***************************************************************************)
(* The state machine: one builder, add_attr and make called on it.         *)
(***************************************************************************)
Init ==
    /\ pk \in PKs
    /\ sk \in SKs
    /\ to_update_if_not_exists = <<>>
    /\ to_update_if_not_exists_ix = <<>>
    /\ to_update = <<>>
    /\ to_update_ix = <<>>
    /\ calls = 0
    /\ last = [op |-> "__init__", args |-> <<pk, sk>>, exc |-> NoException, ret |-> None]
    /\ DynIdle
    /\ PsIdle
    /\ DbIdle
    /\ SnsIdle
    /\ LambdaIdle

\* factory.add_attr(attr_name, attr_value, indexes, do_skip_if_existing)
AddAttr ==
    /\ calls < MaxCalls
    /\ \E attr_name \in Names, attr_value \in AttrValues, indexes \in IndexesInputs,
          do_skip_if_existing \in BOOLEAN :
          LET r == add_attr(Self, attr_name, attr_value, indexes, do_skip_if_existing)
          IN  /\ to_update_if_not_exists' = r.self.to_update_if_not_exists
              /\ to_update_if_not_exists_ix' = r.self.to_update_if_not_exists_ix
              /\ to_update' = r.self.to_update
              /\ to_update_ix' = r.self.to_update_ix
              /\ last' = [op |-> "add_attr",
                          args |-> <<attr_name, attr_value, indexes, do_skip_if_existing>>,
                          exc |-> r.exc, ret |-> None]
    /\ calls' = calls + 1
    /\ UNCHANGED <<pk, sk>>
    /\ UNCHANGED outsideFactory

\* Mutant of Make: a make that returns consumes the unconditional bucket.
MakeConsuming ==
    /\ \E is_transaction \in BOOLEAN, table_name \in TableNames,
          return_values \in ReturnValuesInputs :
          LET r == make(Self, is_transaction, table_name, return_values)
          IN  /\ last' = [op |-> "make",
                          args |-> <<is_transaction, table_name, return_values>>,
                          exc |-> r.exc, ret |-> r.ret]
              /\ to_update' = IF r.exc = NoException THEN <<>> ELSE to_update
    /\ UNCHANGED <<pk, sk, to_update_if_not_exists, to_update_if_not_exists_ix,
                   to_update_ix, calls>>
    /\ UNCHANGED outsideFactory

\* factory.make(is_transaction, table_name, return_values)
Make ==
    /\ \E is_transaction \in BOOLEAN, table_name \in TableNames,
          return_values \in ReturnValuesInputs :
          LET r == make(Self, is_transaction, table_name, return_values)
          IN  last' = [op |-> "make",
                       args |-> <<is_transaction, table_name, return_values>>,
                       exc |-> r.exc, ret |-> r.ret]
    /\ UNCHANGED <<pk, sk, to_update_if_not_exists, to_update_if_not_exists_ix,
                   to_update, to_update_ix, calls>>
    /\ UNCHANGED outsideFactory

Next == AddAttr \/ Make

Spec == Init /\ [][Next]_vars

(***************************************************************************)
(* dedynamize of "dynamodb_utils (odd-manager).py", whose dynamize is the  *)
(* same code as the one above.                                             *)
(***************************************************************************)
\* Bound: the number of tokens of an identifier given to dynamize.
MaxTokens == 3

RECURSIVE StrReplace(_, _, _)
\* str.replace(old, new) for a non-empty old: the occurrences of old are
\* replaced from the left, and the text put in is not searched again.
StrReplace(s, old, new) ==
    IF Len(s) < Len(old) THEN s
    ELSE IF SubSeq(s, 1, Len(old)) = old
    THEN new \o StrReplace(SubSeq(s, Len(old) + 1, Len(s)), old, new)
    ELSE <<Head(s)>> \o StrReplace(Tail(s), old, new)

\* `text.replace("GSI", "_gsi")`, then "PK", then "SK".
ReplaceMarkers(s) ==
    StrReplace(
        StrReplace(
            StrReplace(s, <<"G", "S", "I">>, <<"_", "g", "s", "i">>),
            <<"P", "K">>, <<"_", "p", "k">>),
        <<"S", "K">>, <<"_", "s", "k">>)

\* What the loop of dedynamize appends for the character c.
SnakeChar(c) == IF IsUpper(c) THEN <<"_", ToLower(c)>> ELSE <<c>>

\* Mutant of dedynamize: the leading underscore is kept.
dedynamize_keeps_leading_underscore(text) ==
    LET t == ReplaceMarkers(text)
        result == StrJoin([i \in 1..Len(t) |-> SnakeChar(t[i])])
    IN  IF result = <<>>
        THEN [done |-> TRUE, exc |-> Raise("IndexError", "list index out of range"),
              ret |-> <<>>]
        ELSE [done |-> TRUE, exc |-> NoException, ret |-> result]

\* dedynamize: what it raises and what it returns (`result[0]` of an
\* empty list is an IndexError).
dedynamize(text) ==
    LET t == ReplaceMarkers(text)
        result == StrJoin([i \in 1..Len(t) |-> SnakeChar(t[i])])
    IN  IF result = <<>>
        THEN [done |-> TRUE, exc |-> Raise("IndexError", "list index out of range"),
              ret |-> <<>>]
        ELSE [done |-> TRUE, exc |-> NoException,
              ret |-> IF result[1] = "_" THEN Tail(result) ELSE result]

\* The tokens tried: the empty token, words, single letters, the three
\* special tokens, one of them in mixed case, and a word that contains one.
Vocabulary ==
    {<<>>, <<"a", "t">>, <<"r", "u", "n">>, <<"s">>, <<"k">>,
     <<"k", "i">>, <<"g", "s", "i">>, <<"p", "k">>, <<"s", "k">>, <<"S", "k">>,
     <<"s", "k", "i", "p">>}

RECURSIVE JoinUnderscore(_)
\* "_".join(tokens)
JoinUnderscore(tokens) ==
    IF Len(tokens) = 1 THEN Head(tokens)
    ELSE Head(tokens) \o <<"_">> \o JoinUnderscore(Tail(tokens))

\* The identifier of the docstrings of dynamize and dedynamize:
\* gsi_dataset_summary_sk_latest_service_run_at
ExampleIdentifier ==
    JoinUnderscore(<<
        <<"g", "s", "i">>, <<"d", "a", "t", "a", "s", "e", "t">>,
        <<"s", "u", "m", "m", "a", "r", "y">>, <<"s", "k">>,
        <<"l", "a", "t", "e", "s", "t">>, <<"s", "e", "r", "v", "i", "c", "e">>,
        <<"r", "u", "n">>, <<"a", "t">>>>)

\* GSIDatasetSummarySKLatestServiceRunAt
ExampleDynamized ==
    <<"G", "S", "I", "D", "a", "t", "a", "s", "e", "t",
      "S", "u", "m", "m", "a", "r", "y", "S", "K",
      "L", "a", "t", "e", "s", "t", "S", "e", "r", "v", "i", "c", "e",
      "R", "u", "n", "A", "t">>

\* The identifiers given to dynamize.
Identifiers ==
    {ExampleIdentifier} \cup
    UNION {{JoinUnderscore(tks) : tks \in [1..n -> Vocabulary]} : n \in 1..MaxTokens}

InitDyn ==
    /\ FactoryIdle
    /\ PsIdle
    /\ DbIdle
    /\ SnsIdle
    /\ LambdaIdle
    /\ identifier \in Identifiers
    /\ dynamized = NotCalled
    /\ dedynamized = NotCalled

\* dynamize(identifier)
Dynamize ==
    /\ ~dynamized.done
    /\ dynamized' = [done |-> TRUE, exc |-> NoException, ret |-> dynamize(identifier)]
    /\ UNCHANGED <<identifier, dedynamized>>
    /\ UNCHANGED outsideDyn

\* dedynamize(dynamize(identifier))
Dedynamize ==
    /\ dynamized.done
    /\ ~dedynamized.done
    /\ dedynamized' = dedynamize(dynamized.ret)
    /\ UNCHANGED <<identifier, dynamized>>
    /\ UNCHANGED outsideDyn

NextDyn == Dynamize \/ Dedynamize

SpecDyn == InitDyn /\ [][NextDyn]_vars

(***************************************************************************)
(* aws_parameter_store_client.py: AwsParameterStoreClient and the cache    *)
(* that all its instances share.  The cache is cache_utils.CacheForTimeMap *)
(* as the client uses it: get(key) returns the value set or raises         *)
(* KeyNotFound or ItemExpired, set(key, value, ttl) stores a value for ttl *)
(* seconds.  It is a function from the cached paths to [value, expires].   *)
(***************************************************************************)
\* Bound: the number of calls made on the clients.
MaxPsCalls == 3

\* Bound: the seconds that pass.
MaxTime == 2

\* The AwsParameterStoreClient instances of the process.
Instances == {"client1", "client2"}

\* The plain-text values of the tests.
ParameterValues == {"yesss!", "nooo!"}

\* The values of cache_ttl tried, in seconds.
CacheTtls == {1, 2}

\* A parameter held by Parameter Store: Type is SecureString when secure.
Parameter(value, secure) == [present |-> TRUE, value |-> value, secure |-> secure]

\* What the SDK gives as parameter["Parameter"]["Value"]: the plain text,
\* or the cipher text of a SecureString fetched without decryption.
SdkValue(parameter, with_decryption) ==
    [text |-> parameter.value, encrypted |-> parameter.secure /\ ~with_decryption]

\* An exception that carries a path.
RaisePath(type, path) == [type |-> type, path |-> path]

\* cache.get(path) at time t: [exc, value].  Whether the entry is still
\* served in the very second it expires is left open (hit_at_expiry).
CacheGet(c, path, t, hit_at_expiry) ==
    IF path \notin DOMAIN c
    THEN [exc |-> "KeyNotFound", value |-> None]
    ELSE IF t < c[path].expires \/ (t = c[path].expires /\ hit_at_expiry)
    THEN [exc |-> "", value |-> c[path].value]
    ELSE [exc |-> "ItemExpired", value |-> None]

\* The outcomes of cache.get(path) that are open at time t.
AtExpiry(c, path, t) ==
    IF path \in DOMAIN c /\ t = c[path].expires THEN BOOLEAN ELSE {FALSE}

\* cache.set(path, value, cache_ttl) at time t.
CacheSet(c, path, value, cache_ttl, t) ==
    FnSet(c, path, [value |-> value, expires |-> t + cache_ttl])

\* self.client.get_parameter(Name=path[, WithDecryption=True]): [exc, value].
SdkGetParameter(st, path, with_decryption) ==
    IF st[path].present
    THEN [exc |-> "", value |-> SdkValue(st[path], with_decryption)]
    ELSE [exc |-> "ParameterNotFound", value |-> None]

\* Mutant of GetFromStore: the value fetched is cached whatever
\* do_skip_cache says.
GetFromStoreAlwaysCaches(c, st, t, path, do_decrypt, cache_ttl, do_skip_cache) ==
    LET parameter == SdkGetParameter(st, path, do_decrypt)
    IN  IF parameter.exc = "ParameterNotFound"
        THEN [cache |-> c, exc |-> RaisePath("ParameterNotFound", path),
              ret |-> None, sdk_called |-> TRUE]
        ELSE [cache |-> CacheSet(c, path, parameter.value, cache_ttl, t),
              exc |-> NoException, ret |-> parameter.value, sdk_called |-> TRUE]

\* Mutant of GetFromStore: a path that Parameter Store does not hold is
\* cached as None.
GetFromStoreCachesNotFound(c, st, t, path, do_decrypt, cache_ttl, do_skip_cache) ==
    LET parameter == SdkGetParameter(st, path, do_decrypt)
    IN  IF parameter.exc = "ParameterNotFound"
        THEN [cache |-> IF ~do_skip_cache
                        THEN CacheSet(c, path, None, cache_ttl, t)
                        ELSE c,
              exc |-> RaisePath("ParameterNotFound", path),
              ret |-> None, sdk_called |-> TRUE]
        ELSE [cache |-> IF ~do_skip_cache
                        THEN CacheSet(c, path, parameter.value, cache_ttl, t)
                        ELSE c,
              exc |-> NoException, ret |-> parameter.value, sdk_called |-> TRUE]

\* The part of _get after the cache: the fetch from Parameter Store.
GetFromStore(c, st, t, path, do_decrypt, cache_ttl, do_skip_cache) ==
    LET parameter == SdkGetParameter(st, path, do_decrypt)
    IN  IF parameter.exc = "ParameterNotFound"
        THEN [cache |-> c, exc |-> RaisePath("ParameterNotFound", path),
              ret |-> None, sdk_called |-> TRUE]
        ELSE [cache |-> IF ~do_skip_cache
                        THEN CacheSet(c, path, parameter.value, cache_ttl, t)
                        ELSE c,
              exc |-> NoException, ret |-> parameter.value, sdk_called |-> TRUE]

\* Mutant of Get_: the cache is not looked at.
Get_never_reads_cache(c, st, t, path, do_decrypt, cache_ttl, do_skip_cache, hit_at_expiry) ==
    GetFromStore(c, st, t, path, do_decrypt, cache_ttl, do_skip_cache)

\* AwsParameterStoreClient._get: the cache after the call, what the call
\* raised or returned and whether it called the SDK.
Get_(c, st, t, path, do_decrypt, cache_ttl, do_skip_cache, hit_at_expiry) ==
    IF ~do_skip_cache /\ CacheGet(c, path, t, hit_at_expiry).exc = ""
    THEN [cache |-> c, exc |-> NoException,
          ret |-> CacheGet(c, path, t, hit_at_expiry).value, sdk_called |-> FALSE]
    ELSE GetFromStore(c, st, t, path, do_decrypt, cache_ttl, do_skip_cache)

get_parameter(c, st, t, path, cache_ttl, do_skip_cache, hit_at_expiry) ==
    Get_(c, st, t, path, FALSE, cache_ttl, do_skip_cache, hit_at_expiry)

get_secret(c, st, t, path, cache_ttl, do_skip_cache, hit_at_expiry) ==
    Get_(c, st, t, path, TRUE, cache_ttl, do_skip_cache, hit_at_expiry)

\* AwsParameterStoreClient._put: Parameter Store after the call and what the
\* call raised (the SDK refuses an existing path unless Overwrite is set).
Put_(st, path, value, is_secure_string, do_overwrite) ==
    IF st[path].present /\ ~do_overwrite
    THEN [store |-> st, exc |-> RaisePath("ParameterAlreadyExists", path)]
    ELSE [store |-> [st EXCEPT ![path] = Parameter(value, is_secure_string)],
          exc |-> NoException]

put_parameter(st, path, value, do_overwrite) ==
    Put_(st, path, value, FALSE, do_overwrite)

put_secret(st, path, value, do_overwrite) ==
    Put_(st, path, value, TRUE, do_overwrite)

\* The process starts with an empty cache; the first path of the tests
\* holds a parameter or a secret, the other holds nothing.
InitPs ==
    /\ FactoryIdle
    /\ DynIdle
    /\ DbIdle
    /\ SnsIdle
    /\ LambdaIdle
    /\ cache = <<>>
    /\ \E secure \in BOOLEAN :
           parameter_store =
               [p \in Paths |->
                   IF p = "/test/aws/parameter/store/client"
                   THEN Parameter("nooo!", secure) ELSE NoParameter]
    /\ now = 0
    /\ sdk_get_calls = 0
    /\ ps_calls = 0
    /\ ps_last = [op |-> "__init__", exc |-> NoException]

\* Mutant of Get: each client has a cache of its own, so a client finds
\* nothing of what the client that made the call before it has cached.
GetPrivateCache ==
    /\ ps_calls < MaxPsCalls
    /\ \E self \in Instances, op \in {"get_parameter", "get_secret"}, path \in Paths,
          cache_ttl \in CacheTtls, do_skip_cache \in BOOLEAN :
          \E hit_at_expiry \in AtExpiry(cache, path, now) :
          LET others == ps_last.op # "__init__" /\ ps_last.self # self
              own == IF others THEN <<>> ELSE cache
              r == IF op = "get_parameter"
                   THEN get_parameter(own, parameter_store, now, path, cache_ttl,
                                      do_skip_cache, hit_at_expiry)
                   ELSE get_secret(own, parameter_store, now, path, cache_ttl,
                                   do_skip_cache, hit_at_expiry)
          IN  /\ cache' = IF others THEN cache ELSE r.cache
              /\ sdk_get_calls' = sdk_get_calls + (IF r.sdk_called THEN 1 ELSE 0)
              /\ ps_last' = [op |-> op, self |-> self, path |-> path,
                             args |-> <<cache_ttl, do_skip_cache>>,
                             exc |-> r.exc, ret |-> r.ret,
                             sdk_called |-> r.sdk_called]
    /\ ps_calls' = ps_calls + 1
    /\ UNCHANGED <<parameter_store, now>>
    /\ UNCHANGED outsidePs

\* client.get_parameter(path, cache_ttl, do_skip_cache) and
\* client.get_secret(path, cache_ttl, do_skip_cache) on one of the clients.
Get ==
    /\ ps_calls < MaxPsCalls
    /\ \E self \in Instances, op \in {"get_parameter", "get_secret"}, path \in Paths,
          cache_ttl \in CacheTtls, do_skip_cache \in BOOLEAN :
          \E hit_at_expiry \in AtExpiry(cache, path, now) :
          LET r == IF op = "get_parameter"
                   THEN get_parameter(cache, parameter_store, now, path, cache_ttl,
                                      do_skip_cache, hit_at_expiry)
                   ELSE get_secret(cache, parameter_store, now, path, cache_ttl,
                                   do_skip_cache, hit_at_expiry)
          IN  /\ cache' = r.cache
              /\ sdk_get_calls' = sdk_get_calls + (IF r.sdk_called THEN 1 ELSE 0)
              /\ ps_last' = [op |-> op, self |-> self, path |-> path,
                             args |-> <<cache_ttl, do_skip_cache>>,
                             exc |-> r.exc, ret |-> r.ret,
                             sdk_called |-> r.sdk_called]
    /\ ps_calls' = ps_calls + 1
    /\ UNCHANGED <<parameter_store, now>>
    /\ UNCHANGED outsidePs

\* Mutant of Put: a put that succeeds drops the cache entry of its path.
PutInvalidating ==
    /\ ps_calls < MaxPsCalls
    /\ \E self \in Instances, op \in {"put_parameter", "put_secret"}, path \in Paths,
          value \in ParameterValues, do_overwrite \in BOOLEAN :
          LET r == IF op = "put_parameter"
                   THEN put_parameter(parameter_store, path, value, do_overwrite)
                   ELSE put_secret(parameter_store, path, value, do_overwrite)
          IN  /\ parameter_store' = r.store
              /\ cache' = IF r.exc = NoException
                          THEN [p \in DOMAIN cache \ {path} |-> cache[p]]
                          ELSE cache
              /\ ps_last' = [op |-> op, self |-> self, path |-> path,
                             args |-> <<value, do_overwrite>>,
                             exc |-> r.exc, ret |-> None,
                             sdk_called |-> TRUE]
    /\ ps_calls' = ps_calls + 1
    /\ UNCHANGED <<now, sdk_get_calls>>
    /\ UNCHANGED outsidePs

\* client.put_parameter(path, value, do_overwrite) and
\* client.put_secret(path, value, do_overwrite) on one of the clients.
Put ==
    /\ ps_calls < MaxPsCalls
    /\ \E self \in Instances, op \in {"put_parameter", "put_secret"}, path \in Paths,
          value \in ParameterValues, do_overwrite \in BOOLEAN :
          LET r == IF op = "put_parameter"
                   THEN put_parameter(parameter_store, path, value, do_overwrite)
                   ELSE put_secret(parameter_store, path, value, do_overwrite)
          IN  /\ parameter_store' = r.store
              /\ ps_last' = [op |-> op, self |-> self, path |-> path,
                             args |-> <<value, do_overwrite>>,
                             exc |-> r.exc, ret |-> None,
                             sdk_called |-> TRUE]
    /\ ps_calls' = ps_calls + 1
    /\ UNCHANGED <<cache, now, sdk_get_calls>>
    /\ UNCHANGED outsidePs

\* A second passes.
Tick ==
    /\ now < MaxTime
    /\ now' = now + 1
    /\ UNCHANGED <<cache, parameter_store, sdk_get_calls, ps_calls, ps_last>>
    /\ UNCHANGED outsidePs

NextPs == Get \/ Put \/ Tick

SpecPs == InitPs /\ [][NextPs]_vars

(***************************************************************************)
(* DynamodbTable of aws_dynamodb_client/dynamodb_client_table.py: write,   *)
(* read_by_pk and read_all over the SDK's Table resource, each wrapped by  *)
(* handle_common_exceptions.                                               *)
(*                                                                         *)
(* An exception is a record of its type, what it carries and its           *)
(* __cause__.  An SDK ClientError is kept as its error code and the set of *)
(* phrases its message holds (mentions): the code only ever asks whether a *)
(* phrase occurs in the error code, in the message or in str(exc), which   *)
(* holds both.  An item is a record of its attributes.  The Items of a     *)
(* query or scan response are kept as a set: their order is left out.      *)
(***************************************************************************)

\* The number of calls made on the DynamodbTable instances.
MaxDbCalls == 2

\* The tables that exist in DynamoDB.
ExistingTables == {"botte-be-task-prod"}

\* The key schema of the table: PK is the hash key, SK the range key.
KeySchema ==
    <<[AttributeName |-> "PK", KeyType |-> "HASH"],
      [AttributeName |-> "SK", KeyType |-> "RANGE"]>>

\* The item of the tests, cut to its key and one more attribute.
DbItem(pk_value, sk_value, task_id) ==
    [PK |-> pk_value, SK |-> sk_value, TaskId |-> task_id]

\* The items written: the item of the tests, the same key with another
\* TaskId, the same PK with another SK, and None, which is not a dict.
DbItems ==
    {DbItem("BOTTE_MESSAGE", "2XxEn9LlUFuTyn0tOCySn11smMS", "BOTTE_MESSAGE"),
     DbItem("BOTTE_MESSAGE", "2XxEn9LlUFuTyn0tOCySn11smMS", "OTHER_TASK"),
     DbItem("BOTTE_MESSAGE", "2XxEn9LlUFuTyn0tOCySn11smMT", "BOTTE_MESSAGE"),
     None}

\* The primary key of an item: its hash and range key attributes.
ItemKey(item) == <<item.PK, item.SK>>

\* The pk_value arguments of read_by_pk: the PK of the tests, a PK no item
\* has, and a dict, which is not a string.
PkValues == {PyStr("BOTTE_MESSAGE"), PyStr("XXX"), [t |-> "dict"]}

\* The pk_attr_name arguments of read_by_pk: the hash key and another name.
PkAttrNames == {"PK", "XXX"}

\* botocore.exceptions.ClientError with response["Error"]["Code"] = code
\* and a message holding the phrases of mentions.
ClientError(code, mentions) ==
    [type |-> "ClientError", code |-> code, mentions |-> mentions]

NoCredentialsError == [type |-> "NoCredentialsError"]

BotocoreEndpointConnectionError == [type |-> "botocore.EndpointConnectionError"]

ParamValidationError == [type |-> "ParamValidationError"]

\* What the SDK raises in a call instead of answering: nothing, missing
\* credentials, no network, or an error response of the service.  The error
\* responses are the invalid and the expired token, the missing resource,
\* a denied access, and errors whose message names another error than
\* their code does.
SdkErrors ==
    {NoException,
     NoCredentialsError,
     BotocoreEndpointConnectionError,
     ClientError("UnrecognizedClientException", {}),
     ClientError("ExpiredTokenException", {}),
     ClientError("ResourceNotFoundException", {}),
     ClientError("AccessDeniedException", {}),
     ClientError("AccessDeniedException", {"UnrecognizedClientException"}),
     ClientError("AccessDeniedException", {"ResourceNotFoundException"}),
     ClientError("ExpiredTokenException", {"ResourceNotFoundException"}),
     ClientError("ResourceNotFoundException", {"ExpiredTokenException"}),
     ClientError("ValidationException", {"ExpiredTokenException"})}

\* What boto3.session.Session or its resource raises in __init__, if
\* anything.
SessionErrors ==
    {NoException, [type |-> "PartialCredentialsError"], [type |-> "ProfileNotFound"]}

\* marker in exc.response["Error"]["Code"] or marker in str(exc)
InCodeOrStr(marker, exc) == marker = exc.code \/ marker \in exc.mentions

\* phrase in exc.response["Error"]["Message"]
InMessage(phrase, exc) == phrase \in exc.mentions

\* The exceptions of the client, each raised from the SDK error.
BotoAuthError(cause) == [type |-> "BotoAuthError", cause |-> cause]

TableDoesNotExist(cause) == [type |-> "TableDoesNotExist", cause |-> cause]

InvalidPutItemMethodParameter(cause) ==
    [type |-> "InvalidPutItemMethodParameter", cause |-> cause]

PrimaryKeyConstraintError(item, cause) ==
    [type |-> "PrimaryKeyConstraintError", item |-> item, cause |-> cause]

EndpointConnectionError(cause) ==
    [type |-> "EndpointConnectionError", cause |-> cause]

PkAttrNameInvalid(pk_attr_name, cause) ==
    [type |-> "PkAttrNameInvalid", pk_attr_name |-> pk_attr_name, cause |-> cause]

PkAttrValueNonString(pk_value, cause) ==
    [type |-> "PkAttrValueNonString", pk_value |-> pk_value, cause |-> cause]

\* The decorator, applied to the outcome fn of the decorated call: an
\* exception of the call is mapped, anything else is passed on.
handle_common_exceptions_not_found_first(fn) ==
    IF fn.exc.type = "NoCredentialsError"
    THEN [fn EXCEPT !.exc = BotoAuthError(fn.exc)]
    ELSE IF fn.exc.type = "ClientError"
    THEN IF InCodeOrStr("ResourceNotFoundException", fn.exc)
         THEN [fn EXCEPT !.exc = TableDoesNotExist(fn.exc)]
         ELSE IF \/ InCodeOrStr("ExpiredTokenException", fn.exc)
                 \/ InCodeOrStr("UnrecognizedClientException", fn.exc)
         THEN [fn EXCEPT !.exc = BotoAuthError(fn.exc)]
         ELSE fn
    ELSE fn

handle_common_exceptions(fn) ==
    IF fn.exc.type = "NoCredentialsError"
    THEN [fn EXCEPT !.exc = BotoAuthError(fn.exc)]
    ELSE IF fn.exc.type = "ClientError"
    THEN IF \/ InCodeOrStr("ExpiredTokenException", fn.exc)
            \/ InCodeOrStr("UnrecognizedClientException", fn.exc)
         THEN [fn EXCEPT !.exc = BotoAuthError(fn.exc)]
         ELSE IF InCodeOrStr("ResourceNotFoundException", fn.exc)
         THEN [fn EXCEPT !.exc = TableDoesNotExist(fn.exc)]
         ELSE fn
    ELSE fn

\* The error response of the service for a table that does not exist.
SdkTableNotFound == ClientError("ResourceNotFoundException", {})

\* self.table.key_schema: the SDK loads the description of the table.
SdkKeySchema(name, sdk_error) ==
    IF sdk_error # NoException
    THEN [exc |-> sdk_error, ret |-> None]
    ELSE IF name \notin ExistingTables
    THEN [exc |-> SdkTableNotFound, ret |-> None]
    ELSE [exc |-> NoException, ret |-> KeySchema]

\* x["KeyType"].lower()
Lower(key_type) == IF key_type = "HASH" THEN "hash" ELSE "range"

\* The body of key_attr_names: the attribute name of each key type.
KeyAttrNamesOf(key_schema) ==
    [hash |-> key_schema[CHOOSE i \in DOMAIN key_schema :
                             Lower(key_schema[i].KeyType) = "hash"].AttributeName,
     range |-> key_schema[CHOOSE i \in DOMAIN key_schema :
                              Lower(key_schema[i].KeyType) = "range"].AttributeName]

\* The cached property key_attr_names of an instance whose cached value is
\* cached (None before the first successful read).
key_attr_names(cached, name, sdk_error) ==
    IF cached # None
    THEN [exc |-> NoException, ret |-> cached, cached |-> cached]
    ELSE LET schema == SdkKeySchema(name, sdk_error)
             fn == handle_common_exceptions(
                       IF schema.exc # NoException
                       THEN [exc |-> schema.exc, ret |-> None]
                       ELSE [exc |-> NoException, ret |-> KeyAttrNamesOf(schema.ret)])
         IN  [exc |-> fn.exc, ret |-> fn.ret,
              cached |-> IF fn.exc = NoException THEN fn.ret ELSE None]

\* The response of a successful put_item.
PutItemOutput == [ResponseMetadata |-> [HTTPStatusCode |-> 200]]

\* self.table.put_item(**kwargs) on the table holding items: the item is
\* validated, the request is sent, the service looks up the table, tests
\* the condition against the item stored under the same primary key and
\* stores the item.
SdkPutItem(items, name, kwargs, sdk_error) ==
    IF kwargs.Item = None
    THEN [items |-> items, exc |-> ParamValidationError, ret |-> None]
    ELSE IF sdk_error # NoException
    THEN [items |-> items, exc |-> sdk_error, ret |-> None]
    ELSE IF name \notin ExistingTables
    THEN [items |-> items, exc |-> SdkTableNotFound, ret |-> None]
    ELSE IF /\ "ConditionExpression" \in DOMAIN kwargs
            /\ ItemKey(kwargs.Item) \in DOMAIN items
            /\ kwargs.ConditionExpression.path \in DOMAIN items[ItemKey(kwargs.Item)]
    THEN [items |-> items,
          exc |-> ClientError("ConditionalCheckFailedException", {}),
          ret |-> None]
    ELSE [items |-> [k \in DOMAIN items \cup {ItemKey(kwargs.Item)} |->
                        IF k = ItemKey(kwargs.Item) THEN kwargs.Item ELSE items[k]],
          exc |-> NoException,
          ret |-> PutItemOutput]

\* The except clauses of write around put_item.
WriteExcept(exc, item) ==
    IF /\ exc.type = "ClientError"
       /\ exc.code \in {"TableNotFoundException", "ResourceNotFoundException"}
    THEN TableDoesNotExist(exc)
    ELSE IF exc.type = "ClientError"
    THEN IF InCodeOrStr("ValidationException", exc)
         THEN InvalidPutItemMethodParameter(exc)
         ELSE IF InCodeOrStr("ConditionalCheckFailedException", exc)
         THEN PrimaryKeyConstraintError(item, exc)
         ELSE exc
    ELSE IF exc.type = "botocore.EndpointConnectionError"
    THEN EndpointConnectionError(exc)
    ELSE IF exc.type \in {"ParamValidationError", "TypeError"}
    THEN InvalidPutItemMethodParameter(exc)
    ELSE exc

\* The body of write.
WriteBody(items, cached, name, item, do_overwrite_existing, sdk_error) ==
    LET names == IF do_overwrite_existing
                 THEN [exc |-> NoException, ret |-> None, cached |-> cached]
                 ELSE key_attr_names(cached, name, sdk_error)
    IN  IF names.exc # NoException
        THEN [items |-> items, cached |-> names.cached,
              exc |-> names.exc, ret |-> None]
        ELSE LET kwargs == IF do_overwrite_existing
                           THEN [Item |-> item]
                           ELSE [Item |-> item,
                                 ConditionExpression |->
                                     [fn |-> "attribute_not_exists",
                                      path |-> names.ret.hash]]
                 put == SdkPutItem(items, name, kwargs, sdk_error)
             IN  [items |-> put.items, cached |-> names.cached,
                  exc |-> WriteExcept(put.exc, item), ret |-> put.ret]

\* The write that sets no condition, whatever do_overwrite_existing is.
write_unconditional(items, cached, name, item, do_overwrite_existing, sdk_error) ==
    handle_common_exceptions(WriteBody(items, cached, name, item, TRUE, sdk_error))

\* table.write(item, do_overwrite_existing)
write(items, cached, name, item, do_overwrite_existing, sdk_error) ==
    handle_common_exceptions(
        WriteBody(items, cached, name, item, do_overwrite_existing, sdk_error))

\* self.table.query(KeyConditionExpression=Key(pk_attr_name).eq(pk_value))
SdkQuery(items, name, pk_attr_name, pk_value, sdk_error) ==
    IF sdk_error # NoException
    THEN [exc |-> sdk_error, ret |-> None]
    ELSE IF name \notin ExistingTables
    THEN [exc |-> SdkTableNotFound, ret |-> None]
    ELSE IF pk_attr_name # KeyAttrNamesOf(KeySchema).hash
    THEN [exc |-> ClientError("ValidationException",
                              {"Query condition missed key schema element"}),
          ret |-> None]
    ELSE IF pk_value.t # "str"
    THEN [exc |-> ClientError("ValidationException",
                              {"Condition parameter type does not match schema type"}),
          ret |-> None]
    ELSE LET found == {items[k] : k \in {j \in DOMAIN items : j[1] = pk_value.s}}
         IN  [exc |-> NoException,
              ret |-> [Items |-> found, Count |-> Cardinality(found)]]

\* The except clause of read_by_pk around query.
ReadByPkExcept(exc, pk_attr_name, pk_value) ==
    IF exc.type = "ClientError"
    THEN IF InMessage("Query condition missed key schema element", exc)
         THEN PkAttrNameInvalid(pk_attr_name, exc)
         ELSE IF InMessage("Condition parameter type does not match schema type", exc)
         THEN PkAttrValueNonString(pk_value, exc)
         ELSE exc
    ELSE exc

\* table.read_by_pk(pk_value, pk_attr_name)
read_by_pk(items, name, pk_value, pk_attr_name, sdk_error) ==
    LET query == SdkQuery(items, name, pk_attr_name, pk_value, sdk_error)
    IN  handle_common_exceptions(
            [exc |-> ReadByPkExcept(query.exc, pk_attr_name, pk_value),
             ret |-> query.ret])

\* self.table.scan()
SdkScan(items, name, sdk_error) ==
    IF sdk_error # NoException
    THEN [exc |-> sdk_error, ret |-> None]
    ELSE IF name \notin ExistingTables
    THEN [exc |-> SdkTableNotFound, ret |-> None]
    ELSE LET found == {items[k] : k \in DOMAIN items}
         IN  [exc |-> NoException,
              ret |-> [Items |-> found, Count |-> Cardinality(found)]]

\* table.read_all()
read_all(items, name, sdk_error) ==
    handle_common_exceptions(SdkScan(items, name, sdk_error))

\* One DynamodbTable instance per table name is constructed; the table that
\* exists is empty.
InitDb ==
    /\ FactoryIdle
    /\ DynIdle
    /\ PsIdle
    /\ SnsIdle
    /\ LambdaIdle
    /\ db_items = <<>>
    /\ db_key_attr_names = [name \in DbTableNames |-> None]
    /\ db_calls = 0
    /\ db_last = [op |-> "__init__", exc |-> NoException]

\* table = DynamodbTable(name): a new instance takes the place of the one
\* for the name, unless the session cannot be made.
Construct ==
    /\ db_calls < MaxDbCalls
    /\ \E name \in DbTableNames, session_error \in SessionErrors :
        /\ db_key_attr_names' =
               IF session_error = NoException
               THEN [db_key_attr_names EXCEPT ![name] = None]
               ELSE db_key_attr_names
        /\ db_last' = [op |-> "__init__", self |-> name,
                       sdk_error |-> session_error,
                       exc |-> IF session_error = NoException
                               THEN NoException
                               ELSE BotoAuthError(session_error)]
    /\ db_calls' = db_calls + 1
    /\ UNCHANGED db_items
    /\ UNCHANGED outsideDb

\* table.write(item, do_overwrite_existing)
Write ==
    /\ db_calls < MaxDbCalls
    /\ \E name \in DbTableNames, item \in DbItems,
          do_overwrite_existing \in BOOLEAN, sdk_error \in SdkErrors :
        LET r == write(db_items, db_key_attr_names[name], name, item,
                       do_overwrite_existing, sdk_error)
        IN  /\ db_items' = r.items
            /\ db_key_attr_names' = [db_key_attr_names EXCEPT ![name] = r.cached]
            /\ db_last' = [op |-> "write", self |-> name,
                           args |-> [item |-> item,
                                     do_overwrite_existing |-> do_overwrite_existing],
                           sdk_error |-> sdk_error,
                           exc |-> r.exc, ret |-> r.ret]
    /\ db_calls' = db_calls + 1
    /\ UNCHANGED outsideDb

\* table.read_by_pk(pk_value, pk_attr_name)
ReadByPk ==
    /\ db_calls < MaxDbCalls
    /\ \E name \in DbTableNames, pk_value \in PkValues,
          pk_attr_name \in PkAttrNames, sdk_error \in SdkErrors :
        LET r == read_by_pk(db_items, name, pk_value, pk_attr_name, sdk_error)
        IN  db_last' = [op |-> "read_by_pk", self |-> name,
                        args |-> [pk_value |-> pk_value,
                                  pk_attr_name |-> pk_attr_name],
                        sdk_error |-> sdk_error,
                        exc |-> r.exc, ret |-> r.ret]
    /\ db_calls' = db_calls + 1
    /\ UNCHANGED <<db_items, db_key_attr_names>>
    /\ UNCHANGED outsideDb

\* table.read_all()
ReadAll ==
    /\ db_calls < MaxDbCalls
    /\ \E name \in DbTableNames, sdk_error \in SdkErrors :
        LET r == read_all(db_items, name, sdk_error)
        IN  db_last' = [op |-> "read_all", self |-> name,
                        sdk_error |-> sdk_error,
                        exc |-> r.exc, ret |-> r.ret]
    /\ db_calls' = db_calls + 1
    /\ UNCHANGED <<db_items, db_key_attr_names>>
    /\ UNCHANGED outsideDb

NextDb == Construct \/ Write \/ ReadByPk \/ ReadAll

SpecDb == InitDb /\ [][NextDb]_vars

(***************************************************************************)
(* SnsTopic of aws_sns_client/sns_client_topic.py: publish over the SDK's  *)
(* Topic resource.  A body is a Python value: a str, a dict or list of     *)
(* strings, possibly holding a value json cannot encode (a class) or the   *)
(* dict itself (a cycle), or None.                                         *)
(***************************************************************************)

\* The number of publish calls made on the SnsTopic instances.
MaxSnsCalls == 2

\* The arn of the tests, whose topic exists, and the one that names no
\* topic.
SnsArns ==
    {"arn:aws:sns:eu-south-1:477353422995:aws-watchdog-errors-prod",
     "arn:aws:sns:eu-south-1:477353422995:aws-watchdog-errors-prodXXX"}

\* The bodies published: the strings, the dict and the dict that cannot be
\* serialized of the tests, a dict that holds itself, a list and None.
SnsBodies ==
    {PyStr("{\"color\": \"red\"}"), PyStr("{\"color"), PyStr("Hello"),
     PyDict(<<[k |-> "color", v |-> PyStr("red")]>>),
     PyDict(<<[k |-> "color", v |-> PyStr("red")],
              [k |-> "myclass", v |-> [t |-> "type"]]>>),
     PyDict(<<[k |-> "self", v |-> [t |-> "cycle"]]>>),
     [t |-> "list", d |-> <<PyStr("red")>>],
     None}

\* json.dumps(body, cls=json_utils.CustomJsonEncoder) of a dict or list of
\* strings: the JSON text, TypeError for a value of a type json cannot
\* encode, ValueError for a circular reference.
JsonDumps(body) ==
    LET value(i) == IF body.t = "dict" THEN body.d[i].v ELSE body.d[i]
        item(i) == IF body.t = "dict"
                   THEN "\"" \o body.d[i].k \o "\": \"" \o value(i).s \o "\""
                   ELSE "\"" \o value(i).s \o "\""
        joined[n \in 0..Len(body.d)] ==
            IF n = 0 THEN ""
            ELSE IF n = 1 THEN item(1)
            ELSE joined[n - 1] \o ", " \o item(n)
    IN  IF \E i \in DOMAIN body.d : value(i).t = "cycle"
        THEN [exc |-> [type |-> "ValueError"], ret |-> None]
        ELSE IF \E i \in DOMAIN body.d : value(i).t = "type"
        THEN [exc |-> [type |-> "TypeError"], ret |-> None]
        ELSE [exc |-> NoException,
              ret |-> PyStr(IF body.t = "dict"
                            THEN "{" \o joined[Len(body.d)] \o "}"
                            ELSE "[" \o joined[Len(body.d)] \o "]")]

\* What the SDK raises in a publish call instead of answering: nothing,
\* missing credentials, no network, or an error response of the service,
\* raised as the class of the client's exceptions that its code names
\* (InvalidParameter: InvalidParameterException, NotFound:
\* NotFoundException) or as plain ClientError.
SnsSdkErrors ==
    {NoException,
     NoCredentialsError,
     BotocoreEndpointConnectionError,
     ClientError("InvalidParameter", {}),
     ClientError("NotFound", {}),
     ClientError("ExpiredToken", {}),
     ClientError("InvalidClientTokenId", {}),
     ClientError("AuthorizationError", {})}

\* self.topic.publish(**kwargs): the arguments are validated, the request
\* is sent and the service looks up the topic.
SdkPublish(arn, kwargs, sdk_error) ==
    IF kwargs.Message.t # "str"
    THEN [exc |-> ParamValidationError, ret |-> None]
    ELSE IF sdk_error # NoException
    THEN [exc |-> sdk_error, ret |-> None]
    ELSE IF arn # "arn:aws:sns:eu-south-1:477353422995:aws-watchdog-errors-prod"
    THEN [exc |-> ClientError("NotFound", {}), ret |-> None]
    ELSE [exc |-> NoException,
          ret |-> [ResponseMetadata |-> [HTTPStatusCode |-> 200]]]

\* The except clauses of publish with the generic ClientError clause first.
PublishExcept_generic_first(exc, arn) ==
    IF exc.type = "NoCredentialsError"
    THEN [type |-> "BotoAuthError", msg |-> "NoCredentialsError", cause |-> exc]
    ELSE IF exc.type = "ClientError"
    THEN IF exc.code = "ExpiredToken"
         THEN [type |-> "BotoAuthErrorTokenExpired", cause |-> exc]
         ELSE IF exc.code = "InvalidClientTokenId"
         THEN [type |-> "BotoAuthError", msg |-> "InvalidClientTokenId", cause |-> exc]
         ELSE [type |-> "BaseErrorResponse", cause |-> exc]
    ELSE IF exc.type = "ParamValidationError"
    THEN [type |-> "InvalidPublishMethodParameter", cause |-> exc]
    ELSE exc

\* The except clauses of publish around self.topic.publish.
PublishExcept(exc, arn) ==
    IF exc.type = "NoCredentialsError"
    THEN [type |-> "BotoAuthError", msg |-> "NoCredentialsError", cause |-> exc]
    ELSE IF exc.type = "ClientError" /\ exc.code \in {"InvalidParameter", "NotFound"}
    THEN [type |-> "TopicNotFound", topic_arn |-> arn, cause |-> exc]
    ELSE IF exc.type = "ParamValidationError"
    THEN [type |-> "InvalidPublishMethodParameter", cause |-> exc]
    ELSE IF exc.type = "ClientError"
    THEN IF exc.code = "ExpiredToken"
         THEN [type |-> "BotoAuthErrorTokenExpired", cause |-> exc]
         ELSE IF exc.code = "InvalidClientTokenId"
         THEN [type |-> "BotoAuthError", msg |-> "InvalidClientTokenId", cause |-> exc]
         ELSE [type |-> "BaseErrorResponse", cause |-> exc]
    ELSE exc

\* topic.publish(body, do_set_json_content_type): the exception or the
\* response, and the SDK calls made.
publish(arn, body, do_set_json_content_type, sdk_error) ==
    LET dumped == IF do_set_json_content_type /\ body.t \in {"dict", "list"}
                  THEN JsonDumps(body)
                  ELSE [exc |-> NoException, ret |-> body]
        attributes == [content_type |-> [DataType |-> "String",
                                         StringValue |-> "application/json"]]
        kwargs == IF do_set_json_content_type
                  THEN [Message |-> dumped.ret, MessageAttributes |-> attributes]
                  ELSE [Message |-> dumped.ret]
        response == SdkPublish(arn, kwargs, sdk_error)
    IN  IF dumped.exc.type = "TypeError"
        THEN [exc |-> [type |-> "NotJsonSerializable", cause |-> dumped.exc],
              ret |-> None, sdk_calls |-> <<>>]
        ELSE IF dumped.exc # NoException
        THEN [exc |-> dumped.exc, ret |-> None, sdk_calls |-> <<>>]
        ELSE [exc |-> PublishExcept(response.exc, arn), ret |-> response.ret,
              sdk_calls |-> <<[arn |-> arn, kwargs |-> kwargs]>>]

\* One SnsTopic instance per arn is constructed.
InitSns ==
    /\ FactoryIdle
    /\ DynIdle
    /\ PsIdle
    /\ DbIdle
    /\ LambdaIdle
    /\ sns_sdk_calls = <<>>
    /\ sns_calls = 0
    /\ sns_last = [op |-> "__init__", exc |-> NoException]

\* topic.publish(body, do_set_json_content_type)
Publish ==
    /\ sns_calls < MaxSnsCalls
    /\ \E arn \in SnsArns, body \in SnsBodies,
          do_set_json_content_type \in BOOLEAN, sdk_error \in SnsSdkErrors :
        LET r == publish(arn, body, do_set_json_content_type, sdk_error)
        IN  /\ sns_sdk_calls' = sns_sdk_calls \o r.sdk_calls
            /\ sns_last' = [op |-> "publish", self |-> arn,
                            args |-> [body |-> body,
                                      do_set_json_content_type |->
                                          do_set_json_content_type],
                            sdk_error |-> sdk_error,
                            exc |-> r.exc, ret |-> r.ret]
    /\ sns_calls' = sns_calls + 1
    /\ UNCHANGED outsideSns

NextSns == Publish

SpecSns == InitSns /\ [][NextSns]_vars

(***************************************************************************)
(* AwsLambdaClient of aws_lambda_client/aws_lambda_client.py: invoke and   *)
(* get_url over the SDK's lambda and apigatewayv2 clients.  What AWS holds *)
(* does not change: a Lambda with a function URL, a Lambda behind an API   *)
(* Gateway V2, and no Lambda named XXX.                                    *)
(***************************************************************************)

\* The number of calls made on the AwsLambdaClient.
MaxLambdaCalls == 3

\* The Lambda names of the tests: one with a function URL, one behind an
\* API Gateway V2, one that does not exist.
LambdaNames ==
    {"botte-be-prod-endpoint-introspection", "botte-be-prod-endpoint-message", "XXX"}

\* What the SDK raises in a call instead of answering: nothing, the
\* ResourceNotFoundException of the lambda client, or another error
\* response.
LambdaSdkErrors ==
    {NoException,
     ClientError("ResourceNotFoundException", {}),
     ClientError("AccessDeniedException", {})}

\* self.client.get_function_url_config(FunctionName=lambda_name)
SdkGetFunctionUrlConfig(lambda_name, sdk_error) ==
    IF sdk_error # NoException
    THEN [exc |-> sdk_error, ret |-> None]
    ELSE IF lambda_name # "botte-be-prod-endpoint-introspection"
    THEN [exc |-> ClientError("ResourceNotFoundException", {}), ret |-> None]
    ELSE [exc |-> NoException,
          ret |-> [FunctionUrl |-> PyStr(
              "https://kvzlxwztgwjlardxdhiwgmcun40latmm.lambda-url.eu-south-1.on.aws/")]]

\* self.client.get_policy(FunctionName=lambda_name): the policy, already
\* read by json.loads; the text of AWS:SourceArn after its last colon is
\* kept as the pieces replace() tells apart.
SdkGetPolicy(lambda_name, sdk_error) ==
    IF sdk_error # NoException
    THEN [exc |-> sdk_error, ret |-> None]
    ELSE IF lambda_name # "botte-be-prod-endpoint-message"
    THEN [exc |-> ClientError("ResourceNotFoundException", {}), ret |-> None]
    ELSE [exc |-> NoException,
          ret |-> [Policy |-> [Statement |-> <<
              [Principal |-> [Service |-> "apigateway.amazonaws.com"],
               Condition |-> [ArnLike |-> [SourceArn |->
                   [upto_last_colon |-> "arn:aws:execute-api:eu-south-1:477353422995:",
                    rest |-> <<"5t325uqwq7", "/*">>]]]]>>]]]

\* Lines 117-225 of get_url: from the policy to the API Gateway V2 id, its
\* endpoint, the integration of the Lambda and the route of the
\* integration.  The text "apigateway" is looked for in the service names
\* that hold it, and the end of IntegrationUri and Target is compared after
\* the prefixes they come with.
ApiGatewayUrl(lambda_name, policy) ==
    LET raise(msg) == [exc |-> Raise("BaseAwsLambdaClientException", msg),
                       ret |-> None, sdk_calls |-> <<>>]
        granted == {i \in DOMAIN policy.Statement :
                        policy.Statement[i].Principal.Service
                            \in {"apigateway.amazonaws.com"}}
        stm == CHOOSE i \in granted : \A j \in granted : j <= i
        source_arn == policy.Statement[stm].Condition.ArnLike.SourceArn
        kept == SelectSeq(source_arn.rest, LAMBDA piece : piece # "/*")
        api_gateway_id == IF kept = <<>> THEN "" ELSE kept[1]
        integrations ==
            IF api_gateway_id = "5t325uqwq7"
            THEN <<[IntegrationId |-> "jwsq0jf",
                    IntegrationUri |->
                        "arn:aws:lambda:eu-south-1:477353422995:function:"
                            \o "botte-be-prod-endpoint-message"]>>
            ELSE <<>>
        routes ==
            IF api_gateway_id = "5t325uqwq7"
            THEN <<[RouteKey |-> <<"POST", "/message">>,
                    Target |-> "integrations/" \o "jwsq0jf"]>>
            ELSE <<>>
        ending == {i \in DOMAIN integrations :
                       \E prefix \in {"", "arn:aws:lambda:eu-south-1:477353422995:function:"} :
                           integrations[i].IntegrationUri = prefix \o lambda_name}
        integration_id ==
            integrations[CHOOSE i \in ending : \A j \in ending : j <= i].IntegrationId
        targeting == {i \in DOMAIN routes :
                          \E prefix \in {"", "integrations/"} :
                              routes[i].Target = prefix \o integration_id}
        route_key == routes[CHOOSE i \in targeting : \A j \in targeting : j <= i].RouteKey
        apigw_calls == <<"get_api", "get_integrations", "get_routes">>
    IN  IF granted = {}
        THEN raise("Could find a policy with Principal>Service=apigateway")
        ELSE IF api_gateway_id = ""
        THEN raise("Couldn't find the API Gateway V2 id in the Lambda policy")
        ELSE IF ending = {}
        THEN [raise("Couldn't find the IntegrationId") EXCEPT
                  !.sdk_calls = SubSeq(apigw_calls, 1, 2)]
        ELSE IF targeting = {}
        THEN [raise("Couldn't find the RouteKey") EXCEPT !.sdk_calls = apigw_calls]
        ELSE IF Len(route_key) # 2
        THEN [exc |-> [type |-> "ValueError"], ret |-> None, sdk_calls |-> apigw_calls]
        ELSE [exc |-> NoException,
              ret |-> <<PyStr("https://5t325uqwq7.execute-api.eu-south-1.amazonaws.com"),
                        PyStr(route_key[2]), PyStr(route_key[1])>>,
              sdk_calls |-> apigw_calls]

\* get_url that goes on to the policy whatever the function URL lookup
\* gave.
get_url_policy_always(lambda_name, url_error, policy_error) ==
    LET policy == SdkGetPolicy(lambda_name, policy_error)
        both_calls == <<"get_function_url_config", "get_policy">>
    IN  IF policy.exc # NoException
        THEN [exc |-> policy.exc, ret |-> None, sdk_calls |-> both_calls]
        ELSE LET r == ApiGatewayUrl(lambda_name, policy.ret.Policy)
             IN  [r EXCEPT !.sdk_calls = both_calls \o r.sdk_calls]

\* client.get_url(lambda_name): the exception or the tuple returned, and
\* the SDK both_calls made, in order.
get_url(lambda_name, url_error, policy_error) ==
    LET url == SdkGetFunctionUrlConfig(lambda_name, url_error)
        policy == SdkGetPolicy(lambda_name, policy_error)
        not_found(e) == e.type = "ClientError" /\ e.code = "ResourceNotFoundException"
        both_calls == <<"get_function_url_config", "get_policy">>
    IN  IF url.exc = NoException
        THEN [exc |-> NoException, ret |-> <<url.ret.FunctionUrl, None, None>>,
              sdk_calls |-> <<"get_function_url_config">>]
        ELSE IF ~not_found(url.exc)
        THEN [exc |-> url.exc, ret |-> None,
              sdk_calls |-> <<"get_function_url_config">>]
        ELSE IF not_found(policy.exc)
        THEN [exc |-> [type |-> "LambdaNotFound", lambda_name |-> lambda_name,
                       cause |-> policy.exc],
              ret |-> None, sdk_calls |-> both_calls]
        ELSE IF policy.exc # NoException
        THEN [exc |-> policy.exc, ret |-> None, sdk_calls |-> both_calls]
        ELSE LET r == ApiGatewayUrl(lambda_name, policy.ret.Policy)
             IN  [r EXCEPT !.sdk_calls = both_calls \o r.sdk_calls]

\* client.invoke(lambda_name, payload): the payload goes to the SDK as the
\* bytes of its JSON text.
invoke(lambda_name, payload, sdk_error) ==
    LET not_found == ClientError("ResourceNotFoundException", {})
        raised == IF sdk_error # NoException THEN sdk_error
                  ELSE IF lambda_name = "XXX" THEN not_found
                  ELSE NoException
    IN  IF raised = not_found
        THEN [exc |-> [type |-> "LambdaNotFound", lambda_name |-> lambda_name,
                       cause |-> raised],
              ret |-> None, sdk_calls |-> <<"invoke">>]
        ELSE [exc |-> raised,
              ret |-> IF raised = NoException THEN [StatusCode |-> 200] ELSE None,
              sdk_calls |-> <<"invoke">>]

\* The AwsLambdaClient is constructed.
InitLambda ==
    /\ FactoryIdle
    /\ DynIdle
    /\ PsIdle
    /\ DbIdle
    /\ SnsIdle
    /\ lambda_calls = 0
    /\ lambda_last = [op |-> "__init__", exc |-> NoException]

\* client.get_url(lambda_name)
GetUrl ==
    /\ lambda_calls < MaxLambdaCalls
    /\ \E lambda_name \in LambdaNames,
          url_error \in LambdaSdkErrors, policy_error \in LambdaSdkErrors :
        LET r == get_url(lambda_name, url_error, policy_error)
        IN  lambda_last' = [op |-> "get_url", lambda_name |-> lambda_name,
                            url_error |-> url_error, policy_error |-> policy_error,
                            exc |-> r.exc, ret |-> r.ret, sdk_calls |-> r.sdk_calls]
    /\ lambda_calls' = lambda_calls + 1
    /\ UNCHANGED outsideLambda

\* client.invoke(lambda_name, payload)
Invoke ==
    /\ lambda_calls < MaxLambdaCalls
    /\ \E lambda_name \in LambdaNames, sdk_error \in LambdaSdkErrors,
          payload \in {PyStr("Hello world from aws-lambda-client pytests!"),
                        PyDict(<<[k |-> "sender_app", v |-> PyStr("AWS_LAMBDA_CLIENT")]>>)} :
        LET r == invoke(lambda_name, payload, sdk_error)
        IN  lambda_last' = [op |-> "invoke", lambda_name |-> lambda_name,
                            payload |-> payload, sdk_error |-> sdk_error,
                            exc |-> r.exc, ret |-> r.ret, sdk_calls |-> r.sdk_calls]
    /\ lambda_calls' = lambda_calls + 1
    /\ UNCHANGED outsideLambda

NextLambda == GetUrl \/ Invoke

SpecLambda == InitLambda /\ [][NextLambda]_vars

(***************************************************************************)
(* Reading the record of the last call.                                    *)
(***************************************************************************)
LastIsMake == last.op = "make"

LastIsAddAttr == last.op = "add_attr"

Returned == last.exc = NoException

RaisedType == last.exc.type

\* The arguments of the last call, when it is a make.
ArgIsTransaction == last.args[1]

ArgTableName == last.args[2]

ArgReturnValues == last.args[3]

\* The arguments of the last call, when it is an add_attr.
ArgAttrName == last.args[1]

ArgAttrValue == last.args[2]

ArgIndexes == last.args[3]

ArgDoSkipIfExisting == last.args[4]

\* table_name is absent: None or the empty string.
TableNameAbsent(table_name) == table_name = None \/ table_name = PyStr("")

\* The three configuration errors, in the words of the interface.
ModeMismatch(is_transaction, table_name, return_values) ==
    \/ is_transaction /\ TableNameAbsent(table_name)
    \/ ~is_transaction /\ ~TableNameAbsent(table_name)
    \/ is_transaction /\ return_values.name # "NONE"

ValidModeArgs == ~ModeMismatch(ArgIsTransaction, ArgTableName, ArgReturnValues)

\* Some name is in both dicts with unequal values.
Conflict(d1, d2) ==
    \E n \in DictKeys(d1) \cap DictKeys(d2) : DictGet(d1, n) # DictGet(d2, n)

PlainConflict == Conflict(to_update_if_not_exists, to_update)

IndexedConflict == Conflict(to_update_if_not_exists_ix, to_update_ix)

AllBucketsEmpty ==
    /\ to_update_if_not_exists = <<>>
    /\ to_update_if_not_exists_ix = <<>>
    /\ to_update = <<>>
    /\ to_update_ix = <<>>

(***************************************************************************)
(* Claims.                                                                 *)
(***************************************************************************)
\* C1: when some name is in both plain buckets with unequal values, or in
\* both indexed buckets with unequal values, make() with valid mode
\* arguments raises AttributeValuesConflict and returns no expression.
C1_ConflictRaises ==
    (LastIsMake /\ ValidModeArgs /\ (PlainConflict \/ IndexedConflict))
        => (RaisedType = "AttributeValuesConflict" /\ last.ret = None)

\* A make() that met a conflict between the indexed buckets only.
C1_Witness ==
    /\ LastIsMake /\ ValidModeArgs
    /\ IndexedConflict /\ ~PlainConflict
    /\ RaisedType = "AttributeValuesConflict"

\* C3: add_attr with an indexes mapping that holds a None value raises
\* IndexValueNoneError, whatever do_skip_if_existing is.
C3_NoneIndexRaises ==
    (LastIsAddAttr /\ ArgIndexes.t = "dict"
        /\ \E i \in 1..Len(ArgIndexes.d) : ArgIndexes.d[i].v = None)
        => RaisedType = "IndexValueNoneError"

\* An add_attr with do_skip_if_existing=False and two bindings, the second
\* of them None, that raised.
C3_Witness ==
    /\ LastIsAddAttr /\ ~ArgDoSkipIfExisting
    /\ ArgIndexes.t = "dict" /\ Len(ArgIndexes.d) = 2
    /\ ArgIndexes.d[1].v # None /\ ArgIndexes.d[2].v = None
    /\ RaisedType = "IndexValueNoneError"

\* C4: make() raises NoAttrsAdded exactly when no attribute is registered
\* in the builder, whatever is_transaction, table_name and return_values.
C4_NoAttrsAdded ==
    LastIsMake => (RaisedType = "NoAttrsAdded" <=> AllBucketsEmpty)

\* A make() on the fresh builder, with arguments that are themselves a
\* configuration error, that raised NoAttrsAdded.
C4_Witness ==
    /\ LastIsMake /\ AllBucketsEmpty /\ calls = 0
    /\ ArgIsTransaction /\ ArgTableName = None /\ ArgReturnValues.name = "ALL_NEW"
    /\ RaisedType = "NoAttrsAdded"

\* C5: on a builder with at least one attribute, make() raises ValueError
\* exactly when is_transaction is true and table_name is absent, or
\* is_transaction is false and table_name is a non-empty string, or
\* is_transaction is true and return_values is not NONE.
C5_ConfigurationError ==
    (LastIsMake /\ ~AllBucketsEmpty)
        => (RaisedType = "ValueError"
              <=> ModeMismatch(ArgIsTransaction, ArgTableName, ArgReturnValues))

\* A make() in transaction mode with a table name and return_values
\* ALL_NEW that raised ValueError.
C5_Witness ==
    /\ LastIsMake /\ ~AllBucketsEmpty
    /\ ArgIsTransaction /\ ArgTableName = PyStr("MyTable")
    /\ ArgReturnValues.name = "ALL_NEW"
    /\ RaisedType = "ValueError"

(***************************************************************************)
(* Reading a returned expression.                                          *)
(***************************************************************************)
\* The dict that holds Key, UpdateExpression and the placeholder maps.
CoreExpression == IF ArgIsTransaction THEN last.ret.Update ELSE last.ret

\* "#n = :n"
UnconditionalForm(n) ==
    <<"#">> \o n \o <<" ", "=", " ", ":">> \o n

\* "#n = if_not_exists(#n, :n)"
ConditionalForm(n) ==
    <<"#">> \o n \o <<" ", "=", " ", "i", "f", "_", "n", "o", "t", "_", "e", "x", "i", "s", "t", "s", "(", "#">>
        \o n \o <<",", " ", ":">> \o n \o <<")">>

\* The parentheses open before position i of s.
OpenParens(s, i) ==
    Cardinality({j \in 1..(i - 1) : s[j] = "("})
        - Cardinality({j \in 1..(i - 1) : s[j] = ")"})

\* The positions of the ", " of s that stand outside parentheses.
SeparatorPositions(s) ==
    {i \in 1..(Len(s) - 1) : s[i] = "," /\ s[i + 1] = " " /\ OpenParens(s, i) = 0}

\* Where the fragments of a clause "SET f1, f2, ..." start; nowhere if it
\* does not start with "SET ".
FragmentStarts(update_exp) ==
    IF Len(update_exp) >= 4 /\ SubSeq(update_exp, 1, 4) = <<"S", "E", "T", " ">>
    THEN {5} \cup {i + 2 : i \in SeparatorPositions(update_exp)}
    ELSE {}

\* The fragment of the clause that starts at position a.
FragmentAt(update_exp, a) ==
    LET later == {i \in SeparatorPositions(update_exp) : i >= a}
    IN  SubSeq(update_exp, a,
               IF later = {} THEN Len(update_exp)
               ELSE (CHOOSE i \in later : \A j \in later : i <= j) - 1)

\* The name a fragment assigns: what stands between its "#" and " =".
AssignedName(frag) ==
    IF \E j \in 2..Len(frag) : frag[1] = "#" /\ frag[j] = " "
    THEN SubSeq(frag, 2, (CHOOSE j \in 2..Len(frag) :
                             frag[j] = " " /\ \A h \in 2..(j - 1) : frag[h] # " ") - 1)
    ELSE <<>>

\* Where the fragments of update_exp that assign n start.
AssigningFragments(update_exp, n) ==
    {a \in FragmentStarts(update_exp) : AssignedName(FragmentAt(update_exp, a)) = n}

AssignedNames(update_exp) ==
    {AssignedName(FragmentAt(update_exp, a)) : a \in FragmentStarts(update_exp)}

AllBucketKeys ==
    DictKeys(to_update_if_not_exists) \cup DictKeys(to_update_if_not_exists_ix)
        \cup DictKeys(to_update) \cup DictKeys(to_update_ix)

\* The names that are in both plain buckets with equal values.
RegisteredTwiceEqual ==
    {n \in DictKeys(to_update_if_not_exists) \cap DictKeys(to_update) :
        DictGet(to_update_if_not_exists, n) = DictGet(to_update, n)}

\* C2: when a name is registered as create-only and as always-write with
\* equal values, and no name conflicts, make() with valid mode arguments
\* succeeds and UpdateExpression assigns that name exactly once, in the
\* form "#name = :name".
C2_EqualValuesAssignedOnce ==
    (LastIsMake /\ ValidModeArgs /\ ~PlainConflict /\ ~IndexedConflict
        /\ RegisteredTwiceEqual # {})
        => /\ Returned
           /\ \A n \in RegisteredTwiceEqual :
                LET at == AssigningFragments(CoreExpression.UpdateExpression, n)
                IN  /\ Cardinality(at) = 1
                    /\ \A a \in at :
                          FragmentAt(CoreExpression.UpdateExpression, a)
                              = UnconditionalForm(n)

\* The plain and the indexed bucket that add_attr writes for a flag.
PlainBucket(self, do_skip_if_existing) ==
    IF do_skip_if_existing THEN self.to_update_if_not_exists ELSE self.to_update

IndexedBucket(self, do_skip_if_existing) ==
    IF do_skip_if_existing THEN self.to_update_if_not_exists_ix ELSE self.to_update_ix

\* after is before with every entry of written set and nothing else changed.
DictWritten(before, after, written) ==
    /\ Len(after) = Cardinality(DictKeys(after))
    /\ DictKeys(after) = DictKeys(before) \cup DictKeys(written)
    /\ \A k \in DictKeys(written) : DictGet(after, k) = DictGet(written, k)
    /\ \A k \in DictKeys(before) \ DictKeys(written) :
          DictGet(after, k) = DictGet(before, k)

\* The effect of a step that is a successful add_attr, read from the
\* arguments that the step records.
AddAttrEffect ==
    LET f == last'.args[4]
        bindings == IF last'.args[3].t = "dict" THEN last'.args[3].d ELSE <<>>
    IN  /\ DictWritten(PlainBucket(Self, f), PlainBucket(Self', f),
                       <<Entry(last'.args[1], last'.args[2])>>)
        /\ DictWritten(IndexedBucket(Self, f), IndexedBucket(Self', f), bindings)
        /\ PlainBucket(Self', ~f) = PlainBucket(Self, ~f)
        /\ IndexedBucket(Self', ~f) = IndexedBucket(Self, ~f)
        /\ pk' = pk
        /\ sk' = sk

\* C6: a successful add_attr(name, value, indexes, f) sets name to value in
\* the plain bucket of flag f, stores every binding of indexes in the
\* indexed bucket of flag f, and leaves the other entries of these buckets,
\* the two buckets of the other flag, pk and sk as they were.
C6_AddAttrFrame ==
    [][(last'.op = "add_attr" /\ last'.exc = NoException /\ calls' = calls + 1)
          => AddAttrEffect]_vars

\* A third, successful add_attr with do_skip_if_existing=False and two
\* bindings, on a builder whose every bucket holds something: to_update
\* holds one name that all three calls wrote or a second name besides.
C6_Witness ==
    /\ LastIsAddAttr /\ Returned /\ calls = 3
    /\ ~ArgDoSkipIfExisting
    /\ ArgIndexes.t = "dict" /\ Len(ArgIndexes.d) = 2
    /\ to_update_if_not_exists # <<>> /\ to_update_if_not_exists_ix # <<>>
    /\ Len(to_update) = 2 /\ Len(to_update_ix) = 2

\* C7: a make() that succeeds with is_transaction=False returns exactly
\* the fields Key, UpdateExpression, ExpressionAttributeNames,
\* ExpressionAttributeValues and ReturnValues, with Key = {PK: pk, SK: sk}
\* and ReturnValues the value of the return_values given.
C7_StandaloneShape ==
    (LastIsMake /\ Returned /\ ~ArgIsTransaction)
        => /\ DOMAIN last.ret = {"Key", "UpdateExpression", "ExpressionAttributeNames",
                                 "ExpressionAttributeValues", "ReturnValues"}
           /\ last.ret.Key = [PK |-> pk, SK |-> sk]
           /\ last.ret.ReturnValues = ArgReturnValues.value

\* A standalone make() that returned, called with return_values ALL_NEW.
C7_Witness ==
    /\ LastIsMake /\ Returned /\ ~ArgIsTransaction
    /\ ArgReturnValues.name = "ALL_NEW"
    /\ last.ret.ReturnValues = "ALL_NEW"

\* What make() returns for this builder in standalone mode.
StandaloneExpression == make(Self, FALSE, None, ReturnValuesNONE).ret

\* C8: a make() that succeeds with is_transaction=True and table_name=T
\* returns the single field Update, which holds TableName=T,
\* ReturnValuesOnConditionCheckFailure="NONE" and the Key, UpdateExpression,
\* ExpressionAttributeNames and ExpressionAttributeValues of the standalone
\* expression of the same builder.
C8_TransactionShape ==
    (LastIsMake /\ Returned /\ ArgIsTransaction)
        => /\ DOMAIN last.ret = {"Update"}
           /\ DOMAIN last.ret.Update =
                 {"TableName", "ReturnValuesOnConditionCheckFailure", "Key",
                  "UpdateExpression", "ExpressionAttributeNames",
                  "ExpressionAttributeValues"}
           /\ last.ret.Update.TableName = ArgTableName
           /\ last.ret.Update.ReturnValuesOnConditionCheckFailure = "NONE"
           /\ \A field \in {"Key", "UpdateExpression", "ExpressionAttributeNames",
                            "ExpressionAttributeValues"} :
                 last.ret.Update[field] = StandaloneExpression[field]

\* A transaction make() that returned, on a builder with entries in a
\* plain and in an indexed bucket.
C8_Witness ==
    /\ LastIsMake /\ Returned /\ ArgIsTransaction
    /\ ArgTableName = PyStr("MyTable")
    /\ to_update # <<>> /\ to_update_if_not_exists_ix # <<>>

\* C9: in a returned expression the names n with a "#n" key in
\* ExpressionAttributeNames, those with a ":n" key in
\* ExpressionAttributeValues and those assigned in UpdateExpression are
\* the keys of the four buckets, and "#n" maps to dynamize(n).
C9_Placeholders ==
    (LastIsMake /\ Returned)
        => /\ DOMAIN CoreExpression.ExpressionAttributeNames
                 = {<<"#">> \o n : n \in AllBucketKeys}
           /\ DOMAIN CoreExpression.ExpressionAttributeValues
                 = {<<":">> \o n : n \in AllBucketKeys}
           /\ AssignedNames(CoreExpression.UpdateExpression) = AllBucketKeys
           /\ \A n \in AllBucketKeys :
                 CoreExpression.ExpressionAttributeNames[<<"#">> \o n] = dynamize(n)

\* A make() that returned on a builder where "gsi_at" is only an index
\* binding and "at" only a plain attribute: "#gsi_at" maps to "GSIAt".
C9_Witness ==
    /\ LastIsMake /\ Returned
    /\ NameGsiAt \notin DictKeys(to_update_if_not_exists) \cup DictKeys(to_update)
    /\ NameGsiAt \in DictKeys(to_update_if_not_exists_ix)
    /\ NameAt \in DictKeys(to_update)
    /\ CoreExpression.ExpressionAttributeNames[<<"#", "g", "s", "i", "_", "a", "t">>]
          = <<"G", "S", "I", "A", "t">>

\* The entries of d whose name is not in other, as if_not_exists fragments.
ConditionalFragments(d, other) ==
    LET Kept(e) == e.k \notin DictKeys(other)
        kept == SelectSeq(d, Kept)
    IN  [i \in 1..Len(kept) |-> ConditionalForm(kept[i].k)]

\* The entries of d as unconditional fragments.
UnconditionalFragments(d) == [i \in 1..Len(d) |-> UnconditionalForm(d[i].k)]

\* The fragments of the clause, in the order the interface gives.
ExpectedFragments ==
    ConditionalFragments(to_update_if_not_exists, to_update)
        \o UnconditionalFragments(to_update)
        \o ConditionalFragments(to_update_if_not_exists_ix, to_update_ix)
        \o UnconditionalFragments(to_update_ix)

RECURSIVE JoinCommaSpace(_)
\* ", ".join(frags)
JoinCommaSpace(frags) ==
    IF Len(frags) = 0 THEN <<>>
    ELSE IF Len(frags) = 1 THEN frags[1]
    ELSE frags[1] \o <<",", " ">> \o JoinCommaSpace(Tail(frags))

\* The clause of a returned expression is "SET " and the expected
\* fragments, at least one, separated by ", ".
ClauseAsExpected ==
    (LastIsMake /\ Returned)
        => /\ Len(ExpectedFragments) >= 1
           /\ CoreExpression.UpdateExpression
                 = <<"S", "E", "T", " ">> \o JoinCommaSpace(ExpectedFragments)

\* A step leaves the names of a bucket where they are and puts new names
\* after them: a bucket lists its names in the order of their first
\* registration.
KeepsRegistrationOrder(self, self2) ==
    \A b \in {"to_update_if_not_exists", "to_update_if_not_exists_ix",
              "to_update", "to_update_ix"} :
        /\ Len(self2[b]) >= Len(self[b])
        /\ \A i \in 1..Len(self[b]) : self2[b][i].k = self[b][i].k

\* C10: the UpdateExpression of a returned expression is "SET " followed by
\* at least one fragment, the fragments separated by ", " and ordered:
\* if_not_exists fragments of the plain create-only bucket (without the
\* names of the plain always-write bucket), unconditional fragments of the
\* plain always-write bucket, then the same for the two indexed buckets;
\* within a bucket the fragments follow the order of first registration.
C10_ClauseOrder ==
    /\ []ClauseAsExpected
    /\ [][KeepsRegistrationOrder(Self, Self')]_vars

\* A make() that returned on a builder with entries in all four buckets,
\* a plain name registered under both flags with equal values, and two
\* names in the indexed create-only bucket.
C10_Witness ==
    /\ LastIsMake /\ Returned
    /\ RegisteredTwiceEqual # {}
    /\ Len(to_update_if_not_exists_ix) = 2
    /\ to_update_ix # <<>>
    /\ Len(ExpectedFragments) >= 3

(***************************************************************************)
(* C11: make never modifies the builder: pk, sk and the four buckets are   *)
(* the same after the call as before, whether make returned or raised;     *)
(* hence the same call repeated on the builder as make left it returns an  *)
(* equal expression or raises the same error.                              *)
(***************************************************************************)
\* The step is a call of make (add_attr is the only step that counts calls).
MakeStep == last'.op = "make" /\ calls' = calls

\* make called again, with the arguments of the call just made, on the
\* builder as that call left it.
MakeRepeated == make(Self', last'.args[1], last'.args[2], last'.args[3])

C11_MakeFrame ==
    [][MakeStep =>
          /\ Self' = Self
          /\ MakeRepeated.exc = last'.exc
          /\ MakeRepeated.ret = last'.ret]_vars

\* make has returned a transaction expression built from a builder of which
\* an indexed bucket is not empty, and the builder is still as it was.
C11_Witness ==
    /\ LastIsMake /\ Returned /\ ArgIsTransaction
    /\ to_update # <<>>
    /\ to_update_if_not_exists_ix # <<>>

(***************************************************************************)
(* C12: in every reachable state of the builder, after any sequence of     *)
(* add_attr calls, whether they returned or raised, neither indexed bucket *)
(* (to_update_if_not_exists_ix, to_update_ix) holds a None value.          *)
(***************************************************************************)
C12_NoNoneIndexValue ==
    /\ None \notin DictValues(to_update_if_not_exists_ix)
    /\ None \notin DictValues(to_update_ix)

\* An add_attr that bound a None among other index values has raised, on a
\* builder of which the indexed bucket it writes already held bindings.
C12_Witness ==
    /\ LastIsAddAttr /\ RaisedType = "IndexValueNoneError"
    /\ Len(ArgIndexes.d) > 1
    /\ IndexedBucket(Self, ArgDoSkipIfExisting) # <<>>

(***************************************************************************)
(* Helpers of the claims about dynamize and dedynamize.                    *)
(***************************************************************************)
\* The tokens of the identifier given to dynamize.
IdentifierTokens == StrSplit(identifier, "_")

\* tk is a word of lowercase letters.
LowercaseWord(tk) == tk # <<>> /\ \A i \in 1..Len(tk) : IsLower(tk[i])

\* tk has gsi, pk or sk as a substring.
ContainsMarker(tk) ==
    \E i \in 1..Len(tk), j \in 1..Len(tk) : SubSeq(tk, i, j) \in SpecialTokens

\* dedynamize has been called on what dynamize returned.
RoundTripMade == dynamized.done /\ dedynamized.done

\* dedynamize returned the identifier that dynamize was given.
RoundTrip == dedynamized.exc = NoException /\ dedynamized.ret = identifier

(***************************************************************************)
(* C13, as stated: for every identifier x made of underscore-separated     *)
(* lowercase tokens none of which has gsi, pk or sk as a substring,        *)
(* dedynamize(dynamize(x)) = x.  Violated: s_k becomes SK, which comes     *)
(* back as sk.                                                             *)
(***************************************************************************)
NoMarkerTokens ==
    \A n \in 1..Len(IdentifierTokens) :
        /\ LowercaseWord(IdentifierTokens[n])
        /\ ~ContainsMarker(IdentifierTokens[n])

C13_RoundTripNoMarkerTokens == (RoundTripMade /\ NoMarkerTokens) => RoundTrip

(***************************************************************************)
(* C13, amended: for every identifier x made of underscore-separated       *)
(* tokens of two or more lowercase letters each, none of which has gsi, pk *)
(* or sk as a substring, dedynamize(dynamize(x)) = x.                      *)
(***************************************************************************)
NoMarkerLongTokens ==
    /\ NoMarkerTokens
    /\ \A n \in 1..Len(IdentifierTokens) : Len(IdentifierTokens[n]) >= 2

C13_RoundTrip == (RoundTripMade /\ NoMarkerLongTokens) => RoundTrip

\* An identifier of several such tokens has made the round trip.
C13_Witness ==
    /\ RoundTripMade /\ NoMarkerLongTokens
    /\ Len(IdentifierTokens) = MaxTokens
    /\ RoundTrip

(***************************************************************************)
(* C14, as stated: dynamize(x) is the concatenation, with no separator, of *)
(* the tokens that x has between underscores, a token that is gsi, pk or   *)
(* sk in any letter case being upper-cased and every other token having    *)
(* its first letter capitalised, so that the docstring's identifier        *)
(* becomes GSIDatasetSummarySKLatestServiceRunAt; and dedynamize maps that *)
(* output back to the identifier.  Violated: s_k comes back as sk.         *)
(***************************************************************************)
\* A token as the claim renders it.
Rendered(tk) ==
    IF StrLower(tk) \in SpecialTokens THEN StrUpper(tk)
    ELSE IF tk = <<>> THEN <<>>
    ELSE <<ToUpper(Head(tk))>> \o Tail(tk)

DynamizedAsRendered ==
    dynamized.done =>
        /\ dynamized.ret =
               StrJoin([n \in 1..Len(IdentifierTokens) |-> Rendered(IdentifierTokens[n])])
        /\ identifier = ExampleIdentifier => dynamized.ret = ExampleDynamized

LowercaseTokens ==
    \A n \in 1..Len(IdentifierTokens) : LowercaseWord(IdentifierTokens[n])

C14_DynamizeAndBack ==
    /\ DynamizedAsRendered
    /\ (RoundTripMade /\ LowercaseTokens) => RoundTrip

(***************************************************************************)
(* C14, amended: dynamize(x) is that concatenation, and dedynamize maps it *)
(* back to x when every token of x has two or more lowercase letters (gsi, *)
(* pk and sk among them).                                                  *)
(***************************************************************************)
LowercaseLongTokens ==
    /\ LowercaseTokens
    /\ \A n \in 1..Len(IdentifierTokens) : Len(IdentifierTokens[n]) >= 2

C14_DynamizeAndBackLongTokens ==
    /\ DynamizedAsRendered
    /\ (RoundTripMade /\ LowercaseLongTokens) => RoundTrip

\* The docstring's identifier, which has special and ordinary tokens, was
\* dynamized to the docstring's output and came back.
C14_Witness ==
    /\ RoundTripMade
    /\ identifier = ExampleIdentifier
    /\ dynamized.ret = ExampleDynamized
    /\ RoundTrip

(***************************************************************************)
(* Helpers of the claims about AwsParameterStoreClient.                    *)
(***************************************************************************)
\* The step is a call of get_parameter or get_secret.
PsGetStep ==
    /\ ps_calls' = ps_calls + 1
    /\ ps_last'.op \in {"get_parameter", "get_secret"}

\* The arguments of the call that the step makes.
StepPath == ps_last'.path

StepCacheTtl == ps_last'.args[1]

StepDoSkipCache == ps_last'.args[2]

\* Before the step the cache holds an entry for path that has not expired.
Unexpired(path) == path \in DOMAIN cache /\ now < cache[path].expires

\* The step made no SDK call, exactly one SDK call.
NoSdkCall == ~ps_last'.sdk_called /\ sdk_get_calls' = sdk_get_calls

OneSdkCall == ps_last'.sdk_called /\ sdk_get_calls' = sdk_get_calls + 1

(***************************************************************************)
(* C15: with caching enabled (do_skip_cache = False), a get_parameter(path) *)
(* that finds no entry for path fetches the value with one SDK call and    *)
(* caches it for cache_ttl seconds, and every get_parameter(path) issued   *)
(* before that entry expires returns the entry's value without an SDK      *)
(* call and leaves the entry as it is: any number of such calls after the  *)
(* fetch causes exactly one SDK get_parameter call.                        *)
(***************************************************************************)
\* The step returned the cached value of its path and left the cache alone.
ServedFromCache ==
    /\ ps_last'.exc = NoException
    /\ ps_last'.ret = cache[StepPath].value
    /\ NoSdkCall
    /\ cache' = cache

\* The step made one SDK call and cached what it returned, if it returned.
FetchedAndCached ==
    /\ OneSdkCall
    /\ ps_last'.exc = NoException =>
           /\ StepPath \in DOMAIN cache'
           /\ cache'[StepPath] =
                  [value |-> ps_last'.ret, expires |-> now + StepCacheTtl]

\* In the second in which the entry expires either may happen.
C15_CachedUntilExpiry ==
    [][(PsGetStep /\ ps_last'.op = "get_parameter" /\ ~StepDoSkipCache) =>
          IF Unexpired(StepPath) THEN ServedFromCache
          ELSE IF StepPath \in DOMAIN cache /\ now = cache[StepPath].expires
          THEN ServedFromCache \/ FetchedAndCached
          ELSE FetchedAndCached]_vars

\* After one SDK call, and a second or more later, the third call, a
\* get_parameter with caching enabled, was served from an entry that has
\* not expired a value that Parameter Store no longer holds, without an
\* SDK call.
C15_Witness ==
    /\ ps_last.op = "get_parameter" /\ ~ps_last.args[2]
    /\ ps_last.exc = NoException /\ ~ps_last.sdk_called
    /\ sdk_get_calls = 1 /\ ps_calls = 3
    /\ now >= 1 /\ now < cache[ps_last.path].expires
    /\ ps_last.ret.text # parameter_store[ps_last.path].value

(***************************************************************************)
(* C16: get_parameter and get_secret called with do_skip_cache = True make *)
(* an SDK call on every invocation, return or raise what the SDK gives and *)
(* leave the cache as it was, even when it holds an unexpired entry for    *)
(* the path.                                                               *)
(***************************************************************************)
C16_SkipCacheFrame ==
    [][(PsGetStep /\ StepDoSkipCache) =>
          /\ OneSdkCall
          /\ cache' = cache
          /\ IF parameter_store[StepPath].present
             THEN /\ ps_last'.exc = NoException
                  /\ ps_last'.ret =
                         SdkValue(parameter_store[StepPath], ps_last'.op = "get_secret")
             ELSE ps_last'.exc.type = "ParameterNotFound"]_vars

\* A get that skipped the cache returned the value of Parameter Store
\* while the cache holds another, unexpired, value for the path.
C16_Witness ==
    /\ ps_last.op \in {"get_parameter", "get_secret"} /\ ps_last.args[2]
    /\ ps_last.exc = NoException
    /\ ps_last.path \in DOMAIN cache
    /\ now < cache[ps_last.path].expires
    /\ cache[ps_last.path].value # ps_last.ret

(***************************************************************************)
(* C17: get_parameter or get_secret for a path that is neither cached nor  *)
(* held by Parameter Store raises ParameterNotFound carrying the path and  *)
(* creates no cache entry; a get for a path that has no cache entry makes  *)
(* an SDK call, so a later get for the same path calls the SDK again.      *)
(***************************************************************************)
C17_NotFoundNotCached ==
    [][(PsGetStep /\ StepPath \notin DOMAIN cache) =>
          /\ OneSdkCall
          /\ ~parameter_store[StepPath].present =>
                 /\ ps_last'.exc = RaisePath("ParameterNotFound", StepPath)
                 /\ cache' = cache]_vars

\* Two gets were made, each with an SDK call, and the second, with caching
\* enabled, raised ParameterNotFound; the cache is still empty.
C17_Witness ==
    /\ ps_last.op \in {"get_parameter", "get_secret"} /\ ~ps_last.args[2]
    /\ ps_last.exc = RaisePath("ParameterNotFound", ps_last.path)
    /\ ps_calls = 2 /\ sdk_get_calls = 2
    /\ cache = <<>>

(***************************************************************************)
(* Reading a step of a DynamodbTable instance.                             *)
(***************************************************************************)
DbWriteStep == db_calls' = db_calls + 1 /\ db_last'.op = "write"

\* A write of an item whose primary key (PK and SK) is already stored in
\* the table, the SDK answering the call.
DuplicateWriteStep ==
    /\ DbWriteStep
    /\ db_last'.self \in ExistingTables
    /\ db_last'.sdk_error = NoException
    /\ db_last'.args.item # None
    /\ ItemKey(db_last'.args.item) \in DOMAIN db_items

C19_OverwriteExistingRaises ==
    [][(DuplicateWriteStep /\ db_last'.args.do_overwrite_existing) =>
          /\ db_last'.exc.type = "PrimaryKeyConstraintError"
          /\ db_last'.exc.item = db_last'.args.item]_vars

(***************************************************************************)
(* The SDK error of a write, read_by_pk or read_all step.                  *)
(***************************************************************************)
DbOperationStep ==
    /\ db_calls' = db_calls + 1
    /\ db_last'.op \in {"write", "read_by_pk", "read_all"}

\* The first SDK call of the step is put_item: write does not read the key
\* attribute names, or the instance has them already.
PutItemCalledFirst ==
    /\ db_last'.op = "write"
    /\ \/ db_last'.args.do_overwrite_existing
       \/ db_key_attr_names[db_last'.self] # None

\* What the SDK raised in the step, other than the answers to a request
\* that names no existing key or item: the error of the environment or,
\* for a table that does not exist, ResourceNotFoundException.  An item
\* that is None is refused by put_item before any request is made.
StepSdkError ==
    IF PutItemCalledFirst /\ db_last'.args.item = None
    THEN NoException
    ELSE IF db_last'.sdk_error # NoException
    THEN db_last'.sdk_error
    ELSE IF db_last'.self \notin ExistingTables
    THEN SdkTableNotFound
    ELSE NoException

\* The error codes named by the code or the text of a ClientError.
NamedBy(e) == {e.code} \cup e.mentions

IsAuthError(e) ==
    \/ e.type = "NoCredentialsError"
    \/ /\ e.type = "ClientError"
       /\ NamedBy(e) \cap {"ExpiredTokenException", "UnrecognizedClientException"} # {}

IsNotFoundError(e) ==
    e.type = "ClientError" /\ "ResourceNotFoundException" \in NamedBy(e)

\* The except clauses of the operation itself take the SDK error: those of
\* write around put_item take a ClientError whose code is
\* ResourceNotFoundException or TableNotFoundException and one that names
\* ValidationException or ConditionalCheckFailedException; the one of
\* read_by_pk takes a ClientError whose message tells of a missing key
\* schema element or of a condition parameter of the wrong type.
TakenByOperation ==
    /\ StepSdkError.type = "ClientError"
    /\ \/ /\ PutItemCalledFirst
          /\ \/ StepSdkError.code \in {"ResourceNotFoundException",
                                       "TableNotFoundException"}
             \/ NamedBy(StepSdkError) \cap {"ValidationException",
                                            "ConditionalCheckFailedException"} # {}
       \/ /\ db_last'.op = "read_by_pk"
          /\ StepSdkError.mentions \cap
                 {"Query condition missed key schema element",
                  "Condition parameter type does not match schema type"} # {}

\* The mapping of handle_common_exceptions: the step surfaces the SDK error
\* as BotoAuthError, as TableDoesNotExist, or unchanged.
CommonMapping ==
    IF IsAuthError(StepSdkError)
    THEN db_last'.exc = BotoAuthError(StepSdkError)
    ELSE IF IsNotFoundError(StepSdkError)
    THEN db_last'.exc = TableDoesNotExist(StepSdkError)
    ELSE StepSdkError.type = "ClientError" => db_last'.exc = StepSdkError

(***************************************************************************)
(* C20 as stated: in write, read_by_pk and read_all an SDK                 *)
(* NoCredentialsError, or a ClientError whose code or text names           *)
(* ExpiredTokenException or UnrecognizedClientException, surfaces as       *)
(* BotoAuthError with the SDK error as cause; failing that, a ClientError  *)
(* naming ResourceNotFoundException surfaces as TableDoesNotExist; any     *)
(* other ClientError that the operation itself does not handle propagates  *)
(* unchanged.                                                              *)
(***************************************************************************)
C20_CommonExceptionsAlways ==
    [][(DbOperationStep /\ StepSdkError # NoException) =>
          IF IsAuthError(StepSdkError) \/ IsNotFoundError(StepSdkError)
          THEN CommonMapping
          ELSE ~TakenByOperation => CommonMapping]_vars

(***************************************************************************)
(* C20: the same mapping, for the SDK errors that the except clauses of    *)
(* the operation itself do not take: those come first, so that put_item's  *)
(* ClientError with code ResourceNotFoundException surfaces from write as  *)
(* TableDoesNotExist even when its text names ExpiredTokenException, and   *)
(* one naming ValidationException as InvalidPutItemMethodParameter.        *)
(***************************************************************************)
C20_CommonExceptions ==
    [][/\ (DbOperationStep /\ StepSdkError # NoException /\ ~TakenByOperation) =>
              CommonMapping
       /\ (/\ DbOperationStep
           /\ PutItemCalledFirst
           /\ StepSdkError.type = "ClientError"
           /\ StepSdkError.code = "ResourceNotFoundException") =>
              db_last'.exc = TableDoesNotExist(StepSdkError)]_vars

\* write met a ClientError with code ResourceNotFoundException whose text
\* names ExpiredTokenException while reading the key attribute names, and
\* raised BotoAuthError from it: the auth check came first.
C20_Witness ==
    /\ db_last.op = "write"
    /\ db_last.sdk_error =
           ClientError("ResourceNotFoundException", {"ExpiredTokenException"})
    /\ db_last.exc = BotoAuthError(db_last.sdk_error)

(***************************************************************************)
(* Reading a publish step of an SnsTopic instance.                         *)
(***************************************************************************)
SnsPublishStep == sns_calls' = sns_calls + 1 /\ sns_last'.op = "publish"

\* The SDK publish calls made in the step.
StepSdkPublishCalls ==
    SubSeq(sns_sdk_calls', Len(sns_sdk_calls) + 1, Len(sns_sdk_calls'))

\* The step made one SDK publish call, with this message and with the
\* content_type attribute or with no MessageAttributes at all.
SentWith(message, with_content_type) ==
    /\ Len(StepSdkPublishCalls) = 1
    /\ StepSdkPublishCalls[1].arn = sns_last'.self
    /\ StepSdkPublishCalls[1].kwargs.Message = message
    /\ IF with_content_type
       THEN StepSdkPublishCalls[1].kwargs.MessageAttributes =
                [content_type |-> [DataType |-> "String",
                                   StringValue |-> "application/json"]]
       ELSE DOMAIN StepSdkPublishCalls[1].kwargs = {"Message"}

\* The values held by a dict or list body.
BodyValues(body) ==
    {IF body.t = "dict" THEN body.d[i].v ELSE body.d[i] : i \in DOMAIN body.d}

\* A dict or list body that has no JSON text: it holds a value of a type
\* json does not know, or itself.
CannotBeEncoded(body) ==
    body.t \in {"dict", "list"} /\ \E v \in BodyValues(body) : v.t # "str"

(***************************************************************************)
(* C21: publish with do_set_json_content_type=True sends a dict or list    *)
(* body as its JSON text and a string body as it is, with the message      *)
(* attribute content_type=application/json, and raises NotJsonSerializable *)
(* without any SDK publish call when the body cannot be encoded; with      *)
(* do_set_json_content_type=False it sends the body as it is with no       *)
(* MessageAttributes, and a body that is not a string then fails with      *)
(* InvalidPublishMethodParameter.                                          *)
(***************************************************************************)
C21_PublishBody ==
    [][SnsPublishStep =>
          LET body == sns_last'.args.body
          IN  IF sns_last'.args.do_set_json_content_type
              THEN /\ body.t = "str" => SentWith(body, TRUE)
                   /\ CannotBeEncoded(body) =>
                          /\ sns_last'.exc.type = "NotJsonSerializable"
                          /\ StepSdkPublishCalls = <<>>
                   /\ (body.t \in {"dict", "list"} /\ ~CannotBeEncoded(body)) =>
                          /\ SentWith(StepSdkPublishCalls[1].kwargs.Message, TRUE)
                          /\ StepSdkPublishCalls[1].kwargs.Message.t = "str"
                          /\ body = PyDict(<<[k |-> "color", v |-> PyStr("red")]>>) =>
                                 SentWith(PyStr("{\"color\": \"red\"}"), TRUE)
              ELSE /\ SentWith(body, FALSE)
                   /\ body.t # "str" =>
                          sns_last'.exc.type = "InvalidPublishMethodParameter"]_vars

(***************************************************************************)
(* C22: the SDK errors of the handled classes leave publish mapped:        *)
(* NoCredentialsError as BotoAuthError; InvalidParameterException and      *)
(* NotFoundException as TopicNotFound carrying the arn of the topic, not   *)
(* as the generic ClientError would be; ParamValidationError as            *)
(* InvalidPublishMethodParameter; a ClientError with code ExpiredToken as  *)
(* BotoAuthErrorTokenExpired, with code InvalidClientTokenId as            *)
(* BotoAuthError, any other ClientError as BaseErrorResponse; each with    *)
(* the SDK error as its cause.                                             *)
(***************************************************************************)
C22_PublishErrorsMapped ==
    [][(SnsPublishStep /\ Len(StepSdkPublishCalls) = 1) =>
          LET e == sns_last'.sdk_error
              x == sns_last'.exc
              sent == StepSdkPublishCalls[1].kwargs.Message
          IN  IF sent.t # "str"
              THEN x.type = "InvalidPublishMethodParameter"
                   /\ x.cause.type = "ParamValidationError"
              ELSE IF e = NoException
              THEN IF x = NoException
                   THEN sns_last'.ret.ResponseMetadata.HTTPStatusCode = 200
                   ELSE x.type = "TopicNotFound" /\ x.topic_arn = sns_last'.self
              ELSE IF e.type = "NoCredentialsError"
              THEN x.type = "BotoAuthError" /\ x.cause = e
              ELSE IF e.type = "ClientError"
              THEN /\ x.cause = e
                   /\ x.type =
                          CASE e.code \in {"InvalidParameter", "NotFound"} ->
                                   "TopicNotFound"
                            [] e.code = "ExpiredToken" -> "BotoAuthErrorTokenExpired"
                            [] e.code = "InvalidClientTokenId" -> "BotoAuthError"
                            [] OTHER -> "BaseErrorResponse"
                   /\ x.type = "TopicNotFound" => x.topic_arn = sns_last'.self
              ELSE TRUE]_vars

\* publish on the topic that exists met the SDK's InvalidParameterException
\* and raised TopicNotFound with the arn of the topic.
C22_Witness ==
    /\ sns_last.op = "publish"
    /\ sns_last.sdk_error = ClientError("InvalidParameter", {})
    /\ sns_last.exc.type = "TopicNotFound"
    /\ sns_last.exc.topic_arn = sns_last.self
    /\ sns_last.self = "arn:aws:sns:eu-south-1:477353422995:aws-watchdog-errors-prod"

(***************************************************************************)
(* Reading a get_url step of the AwsLambdaClient.                          *)
(***************************************************************************)
LambdaGetUrlStep == lambda_calls' = lambda_calls + 1 /\ lambda_last'.op = "get_url"

\* What the SDK answers in the step to the function URL lookup and what it
\* answers, or would answer, to the policy lookup.
UrlLookup ==
    SdkGetFunctionUrlConfig(lambda_last'.lambda_name, lambda_last'.url_error)

PolicyLookup == SdkGetPolicy(lambda_last'.lambda_name, lambda_last'.policy_error)

ReportsNotFound(lookup) ==
    lookup.exc.type = "ClientError" /\ lookup.exc.code = "ResourceNotFoundException"

(***************************************************************************)
(* C23: get_url looks up the function URL first; if there is one the       *)
(* result is (FunctionUrl, None, None) and no other SDK call is made; the  *)
(* policy is queried only, and then second, when the function URL lookup   *)
(* reported not-found; when the policy lookup reports not-found too,       *)
(* get_url raises LambdaNotFound carrying the lambda name, with the SDK    *)
(* error as cause, and never the SDK's not-found error itself.             *)
(***************************************************************************)
C23_GetUrlOrder ==
    [][LambdaGetUrlStep =>
          LET made == lambda_last'.sdk_calls
          IN  /\ made # <<>> /\ made[1] = "get_function_url_config"
              /\ UrlLookup.exc = NoException =>
                     /\ lambda_last'.exc = NoException
                     /\ lambda_last'.ret = <<UrlLookup.ret.FunctionUrl, None, None>>
                     /\ made = <<"get_function_url_config">>
              /\ \A i \in DOMAIN made :
                     made[i] \in {"get_policy", "get_api", "get_integrations",
                                  "get_routes"} =>
                         /\ ReportsNotFound(UrlLookup)
                         /\ made[i] = "get_policy" <=> i = 2
              /\ (ReportsNotFound(UrlLookup) /\ ReportsNotFound(PolicyLookup)) =>
                     /\ lambda_last'.exc =
                            [type |-> "LambdaNotFound",
                             lambda_name |-> lambda_last'.lambda_name,
                             cause |-> PolicyLookup.exc]
                     /\ made = <<"get_function_url_config", "get_policy">>
              /\ lambda_last'.exc.type = "ClientError" =>
                     lambda_last'.exc.code # "ResourceNotFoundException"]_vars

\* get_url("XXX") made the two lookups and raised LambdaNotFound("XXX").
C23_Witness ==
    /\ lambda_last.op = "get_url"
    /\ lambda_last.lambda_name = "XXX"
    /\ lambda_last.url_error = NoException /\ lambda_last.policy_error = NoException
    /\ lambda_last.exc.type = "LambdaNotFound"
    /\ lambda_last.exc.lambda_name = "XXX"
    /\ lambda_last.sdk_calls = <<"get_function_url_config", "get_policy">>

(***************************************************************************)
(* C24: the cache is one map of the process, shared by all the             *)
(* AwsParameterStoreClient instances: the value that a get on one instance *)
(* fetched and cached is returned by a get with caching enabled for the    *)
(* same path on another instance, before the entry expires, without an SDK *)
(* call.                                                                   *)
(***************************************************************************)
\* The call before the step (seconds may have passed since) was a get that
\* fetched a value for path with an SDK call and cached it.
CachedByLastCall(path) ==
    /\ ps_last.op \in {"get_parameter", "get_secret"}
    /\ ps_last.path = path
    /\ ~ps_last.args[2]
    /\ ps_last.sdk_called
    /\ ps_last.exc = NoException

C24_CacheSharedByInstances ==
    [][(/\ PsGetStep /\ ~StepDoSkipCache
        /\ CachedByLastCall(StepPath)
        /\ ps_last'.self # ps_last.self
        /\ Unexpired(StepPath)) =>
          /\ ps_last'.exc = NoException
          /\ ps_last'.ret = ps_last.ret
          /\ NoSdkCall]_vars

\* client1 fetched and cached the value; a second later client2 got it
\* for the same path with no SDK call.
C24_Witness ==
    /\ ps_calls = 2 /\ sdk_get_calls = 1 /\ now = 1
    /\ ps_last.op \in {"get_parameter", "get_secret"}
    /\ ps_last.self = "client2"
    /\ ~ps_last.args[2] /\ ~ps_last.sdk_called
    /\ ps_last.exc = NoException
    /\ ps_last.path \in DOMAIN cache
    /\ ps_last.ret = cache[ps_last.path].value
    /\ now < cache[ps_last.path].expires

(***************************************************************************)
(* C29: get_secret never returns a value that was fetched from Parameter   *)
(* Store without decryption: whatever get_parameter and get_secret calls   *)
(* were made for the path with caching enabled, a value that get_secret    *)
(* returns comes from an SDK call made with WithDecryption set, so it is   *)
(* never the cipher text of a SecureString.                                *)
(***************************************************************************)
C29_SecretIsDecrypted ==
    (ps_last.op = "get_secret" /\ ps_last.exc = NoException) =>
        ~ps_last.ret.encrypted

(***************************************************************************)
(* C30: put_parameter and put_secret leave the cache as it is: they do not *)
(* update or drop an entry.  So a get_parameter(path) with caching         *)
(* enabled that follows a successful overwriting put_parameter(path, v),   *)
(* while the entry cached for path has not expired, still returns the      *)
(* value cached before the put and makes no SDK call.                      *)
(***************************************************************************)
\* The step is a call of put_parameter or put_secret.
PsPutStep ==
    /\ ps_calls' = ps_calls + 1
    /\ ps_last'.op \in {"put_parameter", "put_secret"}

\* The call before the step was a put_parameter(path, v, do_overwrite=True)
\* that succeeded.
OverwrittenByLastCall(path) ==
    /\ ps_last.op = "put_parameter"
    /\ ps_last.path = path
    /\ ps_last.args[2]
    /\ ps_last.exc = NoException

C30_PutLeavesCache ==
    [][/\ PsPutStep => (cache' = cache /\ sdk_get_calls' = sdk_get_calls)
       /\ (/\ PsGetStep /\ ps_last'.op = "get_parameter" /\ ~StepDoSkipCache
           /\ OverwrittenByLastCall(StepPath)
           /\ Unexpired(StepPath)) => ServedFromCache]_vars

\* A get fetched and cached nooo!, a put_parameter overwrote it with
\* yesss!, and the get_parameter that followed returned nooo! from the
\* cache, with no SDK call.
C30_Witness ==
    /\ ps_calls = 3 /\ sdk_get_calls = 1
    /\ ps_last.op = "get_parameter" /\ ~ps_last.args[2]
    /\ ps_last.exc = NoException /\ ~ps_last.sdk_called
    /\ ps_last.ret.text = "nooo!"
    /\ parameter_store[ps_last.path].value = "yesss!"
    /\ ~parameter_store[ps_last.path].secure
    /\ now < cache[ps_last.path].expires

(***************************************************************************)
(* C25: in every expression that make() returns, each attribute name is    *)
(* assigned by at most one fragment of UpdateExpression, also when a name  *)
(* is registered both as a regular attribute and as an index binding, and  *)
(* ExpressionAttributeValues[":name"] is the value held for the name by    *)
(* the bucket that produced the fragment.                                  *)
(***************************************************************************)
\* The values held for n by the buckets whose loop in make emits a
\* fragment for n: a create-only bucket emits none for a name that the
\* always-write bucket of its kind holds.
ProducedValues(n) ==
    {DictGet(to_update, m) : m \in DictKeys(to_update) \cap {n}}
    \cup {DictGet(to_update_ix, m) : m \in DictKeys(to_update_ix) \cap {n}}
    \cup {DictGet(to_update_if_not_exists, m) :
             m \in (DictKeys(to_update_if_not_exists) \ DictKeys(to_update)) \cap {n}}
    \cup {DictGet(to_update_if_not_exists_ix, m) :
             m \in (DictKeys(to_update_if_not_exists_ix) \ DictKeys(to_update_ix))
                       \cap {n}}

C25_OneFragmentPerName ==
    (LastIsMake /\ Returned) =>
        \A n \in AssignedNames(CoreExpression.UpdateExpression) :
            /\ Cardinality(AssigningFragments(CoreExpression.UpdateExpression, n)) <= 1
            /\ \A v \in ProducedValues(n) :
                   CoreExpression.ExpressionAttributeValues[ValuePlaceholder(n)] = v

(***************************************************************************)
(* C26: an add_attr that raises IndexValueNoneError leaves the four        *)
(* buckets exactly as they were before the call: it stores neither the     *)
(* attribute it names nor any of its index bindings.                       *)
(***************************************************************************)
C26_FailedAddAttrStoresNothing ==
    [][(/\ last'.op = "add_attr" /\ calls' = calls + 1
        /\ last'.exc.type = "IndexValueNoneError") =>
          UNCHANGED <<to_update_if_not_exists, to_update_if_not_exists_ix,
                      to_update, to_update_ix>>]_vars

(***************************************************************************)
(* C27: in every state of the builder, a non-empty                         *)
(* to_update_if_not_exists_ix implies a non-empty                          *)
(* to_update_if_not_exists and a non-empty                                 *)
(* to_update_ix implies a non-empty to_update; hence make(), which tests   *)
(* the two plain buckets only, raises NoAttrsAdded exactly when all four   *)
(* buckets are empty.                                                      *)
(***************************************************************************)
C27_IndexedImpliesPlain ==
    /\ to_update_if_not_exists_ix # <<>> => to_update_if_not_exists # <<>>
    /\ to_update_ix # <<>> => to_update # <<>>
    /\ LastIsMake => (RaisedType = "NoAttrsAdded" <=> AllBucketsEmpty)

\* A make() that did not raise NoAttrsAdded on a builder whose always-write
\* buckets both hold something and whose create-only buckets are empty.
C27_Witness ==
    /\ LastIsMake /\ RaisedType # "NoAttrsAdded"
    /\ to_update_ix # <<>> /\ to_update # <<>>
    /\ to_update_if_not_exists_ix = <<>> /\ to_update_if_not_exists = <<>>

(***************************************************************************)
(* C28: when several error conditions hold at once make() reports the      *)
(* first that holds in this order: NoAttrsAdded; the mismatch of           *)
(* is_transaction and table_name; return_values given in a transaction;    *)
(* AttributeValuesConflict for the plain buckets; AttributeValuesConflict  *)
(* for the indexed buckets.                                                *)
(***************************************************************************)
\* is_transaction and table_name do not go together.
TableNameMismatch ==
    \/ ArgIsTransaction /\ TableNameAbsent(ArgTableName)
    \/ ~ArgIsTransaction /\ ~TableNameAbsent(ArgTableName)

ReturnValuesInTransaction == ArgIsTransaction /\ ArgReturnValues.name # "NONE"

\* The exception names a name that is in d1 and in d2 with unequal values,
\* and these two values.
ConflictReported(d1, d2) ==
    /\ RaisedType = "AttributeValuesConflict"
    /\ \E n \in DictKeys(d1) \cap DictKeys(d2) :
           /\ DictGet(d1, n) # DictGet(d2, n)
           /\ last.exc.msg = <<"Different values provided for", n,
                               DictGet(d1, n), DictGet(d2, n)>>

C28_ErrorOrder ==
    LastIsMake =>
        IF AllBucketsEmpty
        THEN RaisedType = "NoAttrsAdded"
        ELSE IF TableNameMismatch
        THEN /\ RaisedType = "ValueError"
             /\ last.exc.msg \in
                    {"table_name cannot be None when is_transaction is True",
                     "table_name must be None when is_transaction is True"}
        ELSE IF ReturnValuesInTransaction
        THEN /\ RaisedType = "ValueError"
             /\ last.exc.msg =
                    "return_values must be ReturnValuesEnum.None when is_transaction is True"
        ELSE IF PlainConflict
        THEN ConflictReported(to_update_if_not_exists, to_update)
        ELSE IF IndexedConflict
        THEN ConflictReported(to_update_if_not_exists_ix, to_update_ix)
        ELSE Returned

\* A make() in a transaction with no table name and with return_values
\* ALL_NEW, on a builder whose plain buckets conflict on at and whose
\* indexed buckets conflict on gsi_at: the table_name error was raised.
C28_Witness ==
    /\ LastIsMake
    /\ ArgIsTransaction /\ ArgTableName = None /\ ArgReturnValues.name = "ALL_NEW"
    /\ PlainConflict /\ IndexedConflict
    /\ RaisedType = "ValueError"
    /\ last.exc.msg = "table_name cannot be None when is_transaction is True"

====
